---- MODULE Spec2Model ----
(***************************************************************************)
(* Plaza longest-edge refinement (dolfin/refinement/PlazaRefinementND.cpp) *)
(*                                                                         *)
(* SpecEnforce : enforce_rules run SPMD on a distributed strip of faces.   *)
(* SpecTet     : get_tetrahedra on every marking of the 6 edges and every  *)
(*               choice of a longest edge for each of the 4 facets.        *)
(* SpecRefine  : do_refine on a strip of triangles whose markers satisfy   *)
(*               the rule (as enforce_rules or mark_all leave), with the   *)
(*               parent data of set_parent_facet_markers.                  *)
(* SpecFacets  : set_parent_facet_markers on triangles and on tetrahedra.  *)
(* SpecTwoPass : refine with mark_all, twice, on one triangle.             *)
(* SpecLongEdge: face_long_edge on one face under two local numberings.    *)
(* SpecValues  : MeshPartitioning::build_mesh_value_collection run SPMD    *)
(*               (dolfin/mesh/MeshPartitioning.h).                         *)
(* SpecEntry   : the three overloads of refine, statement by statement.    *)
(* SpecEnforceAnyOrder : SpecEnforce with the faces of a process visited  *)
(*               in any order.                                             *)
(* SpecDivergence : Iteration::computeDivergence, both overloads           *)
(*               (src/kernel/ode/Iteration.cpp).                           *)
(***************************************************************************)
EXTENDS Integers, Naturals, Sequences, FiniteSets, TLC

(* ---------------------------------------------------------------------- *)
(* Bounds                                                                  *)
(* ---------------------------------------------------------------------- *)
NumProcs == 2      \* processes of the communicator
NumFaces == 2      \* faces of the strip mesh enforce_rules runs on
MaxCells == 2      \* cells of the triangle strip do_refine runs on

VARIABLES
  owner,          \* face -> process holding the face
  long_edge,      \* face -> its designated longest edge (mesh edge index)
  marked,         \* process -> set of marked local edges (p_ref marked_edges)
  pc,             \* process -> position inside enforce_rules
  round,          \* process -> rounds of the while loop begun in this call
  update_count,   \* process -> local variable update_count
  sync_sent,      \* process -> markers posted, one entry per sync call
  sum_sent,       \* process -> counts posted, one entry per MPI::sum call
  run,            \* process -> number of the current enforce_rules call
  marked0,        \* process -> markers at entry of the current call
  initial,        \* process -> markers before the first call
  marked_edges,   \* get_tetrahedra: cell-local edge -> marked
  longest_edge,   \* get_tetrahedra: facet -> cell-local longest edge
  conn,           \* get_tetrahedra: the <<row, column>> entries set to true
  tet_set,        \* get_tetrahedra: the emitted slot tuples, in order
  tpc,            \* tetrahedron: "input", "done", "mapped" or "idle"
  tet_vertex_global, \* tetrahedron: local vertex -> global vertex index
  tet_new_cells,  \* tetrahedron: cells handed to new_cell by do_refine
  tet_parent_facet, \* tetrahedron: array "parent_facet" of the new mesh
  ncells,         \* do_refine: number of cells of the input mesh
  edge_shift,     \* do_refine: offset of the mesh edge numbering
  cell_long_edge, \* do_refine: long_edge, cell -> mesh edge index
  p_ref_marked,   \* do_refine: mesh edge indices marked in p_ref
  new_vertex_map, \* do_refine: mesh edge index -> new global vertex index
  indices,        \* do_refine: vector indices, kept across cells
  parent_cell,    \* do_refine: vector parent_cell
  new_cells,      \* do_refine: cells handed to p_ref.new_cell, in order
  cell,           \* do_refine: index of the cell the loop is at
  markers,        \* do_refine: markers of the last refined cell
  local_longest,  \* do_refine: its longest edge in cell-local numbering
  simplex_set,    \* do_refine: simplex_set of the last refined cell
  rpc,            \* do_refine: "start", "cells", "done", "end" or "idle"
  serial,         \* do_refine: local serial, FALSE until it is computed
  redistribute,   \* do_refine: argument redistribute
  calculate_parent_facets, \* do_refine: argument calculate_parent_facets
  new_parent_cell,  \* new mesh: data array "parent_cell", <<>> if not created
  new_parent_facet, \* new mesh: data array "parent_facet", <<>> if not created
  new_mesh_arrays,  \* new mesh: names of the data arrays created on it
  edge_to_global_vertex, \* mesh_relation: <<>> unset, else <<the map>>
  tp_cells,       \* refine (mark_all): cells of the mesh, global vertex triples
  tp_coords,      \* refine (mark_all): global vertex index -> coordinates
  tp_pass,        \* refine (mark_all): passes completed, -1 when idle
  tp_area,        \* refine (mark_all): twice the area of the first mesh
  le_len,         \* face_long_edge: face vertex -> length of the opposite edge
  le_gi,          \* face_long_edge: face vertex -> global vertex index
  le_order,       \* face_long_edge: evaluation -> local position -> face vertex
  le_first,       \* face_long_edge: evaluation -> mesh index of its first edge
  le_result,      \* face_long_edge: evaluation -> result[f], -1 before the call
  vc_hosts,       \* target mesh: global cell index -> processes holding the cell
  vc_have_global, \* process -> its mesh has global cell indices
  vc_ldata,       \* process -> local_value_data, tuples <<cell, entity, value>>
  vc_pc,          \* process -> position in build_mesh_value_collection
  vc_values,      \* process -> mesh_values, entries <<cell, entity, value>>
  vc_off,         \* process -> off_process_global_cell_entities
  vc_send0,       \* process -> send_data0, destination -> indices
  vc_send1,       \* process -> send_data1, destination -> values
  vc_recv0,       \* process -> received_data0, source -> indices
  vc_recv1,       \* process -> received_data1, source -> values
  vc_calls,       \* process -> the collective calls it has made, in order
  en_tdim,        \* refine: topological dimension of the mesh argument
  en_overload,    \* refine: "mark_all", "marker" or "relation"
  en_redistribute, \* refine: argument redistribute
  en_calculate_parent_facets, \* refine: argument calculate_parent_facets
  en_args,        \* refine: <<redistribute, calculate_parent_facets>> as
                  \* passed to do_refine, <<>> before that call
  en_pc,          \* refine: position in the overload
  en_log,         \* refine: what the call has done so far, in order
  en_new_mesh,    \* refine: "unmodified" or "refined"
  dv_overload,    \* computeDivergence: "list" or "group"
  dv_maxiter,     \* Iteration::maxiter
  dv_tol,         \* Iteration::tol, as the exponent of a power of two
  dv_alpha,       \* Iteration::alpha, as <<numerator, denominator>>
  dv_alpha0,      \* the local alpha0
  dv_elements,    \* the values of the elements of the list or group
  dv_x0,          \* Iteration::x0, the saved values
  dv_n,           \* the loop counter n
  dv_dd,          \* the local dd: <<d1, d2>> as exponents, <<>> before update
  dv_rho,         \* <<rho1, rho2>>, base-2 logarithms in units of 1/RhoDen
  dv_pc,          \* computeDivergence: position in the call
  dv_result,      \* the value returned, as dv_rho's entries; <<>> before
  dv_entry        \* <<alpha, element values>> as the call found them

enforce_vars == <<owner, long_edge, marked, pc, round, update_count,
                  sync_sent, sum_sent, run, marked0, initial>>

tet_vars == <<marked_edges, longest_edge, conn, tet_set, tpc,
              tet_vertex_global, tet_new_cells, tet_parent_facet>>

tail_vars == <<serial, redistribute, calculate_parent_facets,
               new_parent_cell, new_parent_facet, new_mesh_arrays,
               edge_to_global_vertex>>

refine_vars == <<ncells, edge_shift, cell_long_edge, p_ref_marked,
                 new_vertex_map, indices, parent_cell, new_cells, cell,
                 markers, local_longest, simplex_set, rpc, tail_vars>>

twopass_vars == <<tp_cells, tp_coords, tp_pass, tp_area>>

\* the variables of the specifications that follow the first three
longedge_vars == <<le_len, le_gi, le_order, le_first, le_result>>

values_vars == <<vc_hosts, vc_have_global, vc_ldata, vc_pc, vc_values, vc_off,
                 vc_send0, vc_send1, vc_recv0, vc_recv1, vc_calls>>

entry_vars == <<en_tdim, en_overload, en_redistribute,
                en_calculate_parent_facets, en_args, en_pc, en_log,
                en_new_mesh>>

div_vars == <<dv_overload, dv_maxiter, dv_tol, dv_alpha, dv_alpha0, dv_elements,
              dv_x0, dv_n, dv_dd, dv_rho, dv_pc, dv_result, dv_entry>>

ext_vars == <<twopass_vars, longedge_vars, values_vars, entry_vars, div_vars>>

vars == <<enforce_vars, tet_vars, refine_vars, ext_vars>>

(* ---------------------------------------------------------------------- *)
(* Values of the variables of a specification that does not use them       *)
(* ---------------------------------------------------------------------- *)
TwoPassIdle ==
  /\ tp_cells = <<>>
  /\ tp_coords = <<>>
  /\ tp_pass = -1
  /\ tp_area = 0

LongEdgeIdle ==
  /\ le_len = <<>>
  /\ le_gi = <<>>
  /\ le_order = <<>>
  /\ le_first = <<>>
  /\ le_result = <<>>

ValuesIdle ==
  /\ vc_hosts = <<>>
  /\ vc_have_global = <<>>
  /\ vc_ldata = <<>>
  /\ vc_pc = <<>>
  /\ vc_values = <<>>
  /\ vc_off = <<>>
  /\ vc_send0 = <<>>
  /\ vc_send1 = <<>>
  /\ vc_recv0 = <<>>
  /\ vc_recv1 = <<>>
  /\ vc_calls = <<>>

EntryIdle ==
  /\ en_tdim = 0
  /\ en_overload = "none"
  /\ en_redistribute = FALSE
  /\ en_calculate_parent_facets = FALSE
  /\ en_args = <<>>
  /\ en_pc = "idle"
  /\ en_log = <<>>
  /\ en_new_mesh = "unmodified"

DivIdle ==
  /\ dv_overload = "none"
  /\ dv_maxiter = 0
  /\ dv_tol = 0
  /\ dv_alpha = <<1, 1>>
  /\ dv_alpha0 = <<1, 1>>
  /\ dv_elements = <<>>
  /\ dv_x0 = <<>>
  /\ dv_n = 0
  /\ dv_dd = <<>>
  /\ dv_rho = <<0, 0>>
  /\ dv_pc = "idle"
  /\ dv_result = <<>>
  /\ dv_entry = <<>>

ExtIdle ==
  /\ TwoPassIdle
  /\ LongEdgeIdle
  /\ ValuesIdle
  /\ EntryIdle
  /\ DivIdle

(* ---------------------------------------------------------------------- *)
(* The mesh: a strip of triangles, face f sharing edge 2f+1 with face f+1  *)
(* ---------------------------------------------------------------------- *)
Procs == 1..NumProcs
Faces == 1..NumFaces
Edges == 1..(2 * NumFaces + 1)

\* cap on the round counter of one call, above the number of edges
MaxRound == 2 * NumFaces + 4

FaceEdges(f) == {2 * f - 1, 2 * f, 2 * f + 1}

LocalFaces(p) == {f \in Faces : owner[f] = p}

LocalEdges(p) == UNION {FaceEdges(f) : f \in LocalFaces(p)}

(* ---------------------------------------------------------------------- *)
(* Collectives                                                             *)
(* ---------------------------------------------------------------------- *)
\* every process has made at least as many calls of the collective as p
AllPosted(sent, p) == \A q \in Procs : Len(sent[q]) >= Len(sent[p])

RECURSIVE SumOver(_, _)
SumOver(S, f) ==
  IF S = {} THEN 0
  ELSE LET q == CHOOSE x \in S : TRUE IN f[q] + SumOver(S \ {q}, f)

\* MPI::sum over the communicator, for the call p is blocked in
MPI_sum(p) ==
  LET k == Len(sum_sent[p]) IN SumOver(Procs, [q \in Procs |-> sum_sent[q][k]])

\* update_logical_edgefunction: markers of shared edges received by p
update_logical_edgefunction(p) ==
  LET k == Len(sync_sent[p])
  IN marked[p] \cup (LocalEdges(p) \cap UNION {sync_sent[q][k] : q \in Procs})

(* ---------------------------------------------------------------------- *)
(* enforce_rules                                                           *)
(* ---------------------------------------------------------------------- *)
\* mutant: the test "is_marked(long_e) -> continue" is missing
ScanFace_nocontinue(f, st) ==
  IF FaceEdges(f) \cap st[1] # {}
  THEN <<st[1] \cup {long_edge[f]}, st[2] + 1>>
  ELSE st

\* mutant: the mark is made but "++update_count" is missing
ScanFace_nocount(f, st) ==
  IF long_edge[f] \in st[1] THEN st
  ELSE IF FaceEdges(f) \cap st[1] # {}
       THEN <<st[1] \cup {long_edge[f]}, st[2]>>
       ELSE st

\* mutant: the mark is moved to the longest edge instead of added
ScanFace_move(f, st) ==
  IF long_edge[f] \in st[1] THEN st
  ELSE IF FaceEdges(f) \cap st[1] # {}
       THEN <<(st[1] \ FaceEdges(f)) \cup {long_edge[f]}, st[2] + 1>>
       ELSE st

\* mutant: every edge of a face with a marked edge is marked
ScanFace_alledges(f, st) ==
  IF long_edge[f] \in st[1] THEN st
  ELSE IF FaceEdges(f) \cap st[1] # {}
       THEN <<st[1] \cup FaceEdges(f), st[2] + 1>>
       ELSE st

\* body of the face loop for one face: <<markers, update_count>> after it
ScanFace(f, st) ==
  LET m == st[1]
      long_e == long_edge[f]
  IN IF long_e \in m THEN st
     ELSE IF FaceEdges(f) \cap m # {} THEN <<m \cup {long_e}, st[2] + 1>>
          ELSE st

\* the face loop over the local faces fs, in increasing index order
RECURSIVE ScanFaces(_, _)
ScanFaces(fs, st) ==
  IF fs = {} THEN st
  ELSE LET f == CHOOSE x \in fs : \A y \in fs : x <= y
       IN ScanFaces(fs \ {f}, ScanFace(f, st))

\* update_count = MPI::sum(mesh.mpi_comm(), update_count): the call returns
\* once every process has entered it, with the sum of the posted counts
SumUpdateCount_local(p) == [ready |-> TRUE, value |-> update_count[p]]

SumUpdateCount(p) ==
  [ready |-> AllPosted(sum_sent, p),
   value |-> IF AllPosted(sum_sent, p) THEN MPI_sum(p) ELSE 0]

\* mutant: the loop test is off by one
LoopContinues_gt1(p, count) == count > 1

\* mutant: the loop test reads the local count, not the global sum
LoopContinues_local(p, count) == update_count[p] # 0

\* loop test of the current value of update_count
LoopContinues(p, count) == count # 0

\* entry of a round: reset the counter and enter the marker synchronisation
EnterRound(p) ==
  /\ round' = [round EXCEPT ![p] = @ + 1]
  /\ update_count' = [update_count EXCEPT ![p] = 0]
  /\ sync_sent' = [sync_sent EXCEPT ![p] = Append(@, marked[p])]
  /\ pc' = [pc EXCEPT ![p] = "sync"]

\* first call: update_count = 1, so the loop body is entered
Call(p) ==
  /\ pc[p] = "call"
  /\ round[p] < MaxRound
  /\ EnterRound(p)
  /\ UNCHANGED <<owner, long_edge, marked, sum_sent, run, marked0, initial>>
  /\ UNCHANGED <<tet_vars, refine_vars, ext_vars>>

\* return from update_logical_edgefunction, the face loop on the received
\* markers, then entry of MPI::sum
SyncReturnScan(p) ==
  /\ pc[p] = "sync"
  /\ AllPosted(sync_sent, p)
  /\ LET st == ScanFaces(LocalFaces(p), <<update_logical_edgefunction(p), update_count[p]>>)
     IN /\ marked' = [marked EXCEPT ![p] = st[1]]
        /\ update_count' = [update_count EXCEPT ![p] = st[2]]
        /\ sum_sent' = [sum_sent EXCEPT ![p] = Append(@, st[2])]
  /\ pc' = [pc EXCEPT ![p] = "sum"]
  /\ UNCHANGED <<owner, long_edge, round, sync_sent, run, marked0, initial>>
  /\ UNCHANGED <<tet_vars, refine_vars, ext_vars>>

\* return from MPI::sum and the loop test: next round
SumReturnContinue(p) ==
  /\ pc[p] = "sum"
  /\ SumUpdateCount(p).ready
  /\ LoopContinues(p, SumUpdateCount(p).value)
  /\ round[p] < MaxRound
  /\ EnterRound(p)
  /\ UNCHANGED <<owner, long_edge, marked, sum_sent, run, marked0, initial>>
  /\ UNCHANGED <<tet_vars, refine_vars, ext_vars>>

\* return from MPI::sum and the loop test: leave enforce_rules
SumReturnExit(p) ==
  /\ pc[p] = "sum"
  /\ SumUpdateCount(p).ready
  /\ ~LoopContinues(p, SumUpdateCount(p).value)
  /\ update_count' = [update_count EXCEPT ![p] = SumUpdateCount(p).value]
  /\ pc' = [pc EXCEPT ![p] = "done"]
  /\ UNCHANGED <<owner, long_edge, marked, round, sync_sent, sum_sent,
                 run, marked0, initial>>
  /\ UNCHANGED <<tet_vars, refine_vars, ext_vars>>

\* enforce_rules is called again on the markers it left: update_count = 1,
\* so the loop body is entered
Rerun(p) ==
  /\ pc[p] = "done"
  /\ run[p] = 1
  /\ run' = [run EXCEPT ![p] = 2]
  /\ marked0' = [marked0 EXCEPT ![p] = marked[p]]
  /\ round' = [round EXCEPT ![p] = 1]
  /\ update_count' = [update_count EXCEPT ![p] = 0]
  /\ sync_sent' = [sync_sent EXCEPT ![p] = Append(@, marked[p])]
  /\ pc' = [pc EXCEPT ![p] = "sync"]
  /\ UNCHANGED <<owner, long_edge, marked, sum_sent, initial>>
  /\ UNCHANGED <<tet_vars, refine_vars, ext_vars>>

(* ---------------------------------------------------------------------- *)
(* get_tetrahedra                                                          *)
(* ---------------------------------------------------------------------- *)
NumSlots == 10        \* 4 vertex slots and 6 edge midpoint slots
NumCellEdges3 == 6    \* edges of a tetrahedron
NumFacets3 == 4       \* facets of a tetrahedron

\* static table edges[6][2]: the two end vertices of each cell edge
EdgesTable == << <<2, 3>>, <<1, 3>>, <<1, 2>>, <<0, 3>>, <<0, 2>>, <<0, 1>> >>

edges(ei, j) == EdgesTable[ei + 1][j + 1]

\* the edges of facet f are those that do not contain vertex f
FacetEdges3(f) ==
  {ei \in 0..(NumCellEdges3 - 1) : edges(ei, 0) # f /\ edges(ei, 1) # f}

\* mutant: the connection back to the longest edge is stored as one entry
FacetConn_oneway(ei, j, m, le) ==
  LET e_opp == 5 - ei
      fj == edges(e_opp, j)
      le_j == le[fj]
  IN IF le_j = ei
     THEN LET fk == edges(e_opp, 1 - j)
              le_k == le[fk]
          IN {<<fk, ei + 4>>}
             \cup (IF le_k = ei /\ m[e_opp]
                   THEN {<<ei + 4, e_opp + 4>>, <<e_opp + 4, ei + 4>>}
                   ELSE {})
     ELSE {<<ei + 4, le_j + 4>>}

\* mutant: the join through the centre of the tetrahedron is missing
FacetConn_nocentre(ei, j, m, le) ==
  LET e_opp == 5 - ei
      fj == edges(e_opp, j)
      le_j == le[fj]
  IN IF le_j = ei
     THEN {<<edges(e_opp, 1 - j), ei + 4>>}
     ELSE {<<le_j + 4, ei + 4>>, <<ei + 4, le_j + 4>>}

\* mutant: when the facets attached to the edge disagree, the edge is
\* connected back to the longest edge of the first of them only
FacetConn_firstback(ei, j, m, le) ==
  LET e_opp == 5 - ei
      fj == edges(e_opp, j)
      le_j == le[fj]
  IN IF le_j = ei
     THEN LET fk == edges(e_opp, 1 - j)
              le_k == le[fk]
          IN {<<fk, ei + 4>>}
             \cup (IF le_k = ei /\ m[e_opp]
                   THEN {<<ei + 4, e_opp + 4>>, <<e_opp + 4, ei + 4>>}
                   ELSE {})
     ELSE IF j = 0
          THEN {<<le_j + 4, ei + 4>>, <<ei + 4, le_j + 4>>}
          ELSE {}

\* mutant: the join through the centre does not ask for the opposite edge
\* to be marked
FacetConn_anycentre(ei, j, m, le) ==
  LET e_opp == 5 - ei
      fj == edges(e_opp, j)
      le_j == le[fj]
  IN IF le_j = ei
     THEN LET fk == edges(e_opp, 1 - j)
              le_k == le[fk]
          IN {<<fk, ei + 4>>}
             \cup (IF le_k = ei
                   THEN {<<ei + 4, e_opp + 4>>, <<e_opp + 4, ei + 4>>}
                   ELSE {})
     ELSE {<<le_j + 4, ei + 4>>, <<ei + 4, le_j + 4>>}

\* entries set for the j-th facet attached to the marked edge ei
FacetConn(ei, j, m, le) ==
  LET e_opp == 5 - ei
      fj == edges(e_opp, j)
      le_j == le[fj]
  IN IF le_j = ei
     THEN LET fk == edges(e_opp, 1 - j)
              le_k == le[fk]
          IN {<<fk, ei + 4>>}
             \cup (IF le_k = ei /\ m[e_opp]
                   THEN {<<ei + 4, e_opp + 4>>, <<e_opp + 4, ei + 4>>}
                   ELSE {})
     ELSE {<<le_j + 4, ei + 4>>, <<ei + 4, le_j + 4>>}

\* mutant: the ends of a marked edge are connected as well
EdgeConn_joinends(ei, m, le) ==
  LET v0 == edges(ei, 0)
      v1 == edges(ei, 1)
  IN {<<v1, v0>>, <<v0, v1>>}
     \cup (IF m[ei]
           THEN {<<v1, ei + 4>>, <<v0, ei + 4>>}
                \cup FacetConn(ei, 0, m, le) \cup FacetConn(ei, 1, m, le)
           ELSE {})

\* entries set by iteration ei of the loop over the cell edges
EdgeConn(ei, m, le) ==
  LET v0 == edges(ei, 0)
      v1 == edges(ei, 1)
  IN IF m[ei]
     THEN {<<v1, ei + 4>>, <<v0, ei + 4>>}
          \cup FacetConn(ei, 0, m, le) \cup FacetConn(ei, 1, m, le)
     ELSE {<<v1, v0>>, <<v0, v1>>}

\* the connectivity matrix after the loop (entries are only ever set)
BuildConn(m, le) == UNION {EdgeConn(ei, m, le) : ei \in 0..(NumCellEdges3 - 1)}

RangeSeq(a, b) == [n \in 1..(b - a + 1) |-> a + n - 1]

\* mutant: the loop over k starts at i + 1 instead of j + 1
FacetSet_from_i(c, i, j) ==
  SelectSeq(RangeSeq(i + 1, NumSlots - 1),
            LAMBDA k : <<i, k>> \in c /\ <<j, k>> \in c)

\* facet_set: the k > j connected to both i and j, in increasing order
FacetSet(c, i, j) ==
  SelectSeq(RangeSeq(j + 1, NumSlots - 1),
            LAMBDA k : <<i, k>> \in c /\ <<j, k>> \in c)

RECURSIVE QLoop(_, _, _, _, _, _)
QLoop(c, i, j, fs, a, b) ==
  IF b > Len(fs) THEN <<>>
  ELSE (IF <<fs[a], fs[b]>> \in c THEN << <<i, j, fs[a], fs[b]>> >> ELSE <<>>)
       \o QLoop(c, i, j, fs, a, b + 1)

RECURSIVE PLoop(_, _, _, _, _)
PLoop(c, i, j, fs, a) ==
  IF a > Len(fs) THEN <<>>
  ELSE QLoop(c, i, j, fs, a, a + 1) \o PLoop(c, i, j, fs, a + 1)

RECURSIVE JLoop(_, _, _)
JLoop(c, i, j) ==
  IF j >= NumSlots THEN <<>>
  ELSE (IF <<i, j>> \in c THEN PLoop(c, i, j, FacetSet(c, i, j), 1) ELSE <<>>)
       \o JLoop(c, i, j + 1)

RECURSIVE ILoop(_, _)
ILoop(c, i) ==
  IF i >= NumSlots THEN <<>> ELSE JLoop(c, i, i + 1) \o ILoop(c, i + 1)

\* the enumeration of the tetrahedra from the connectivity matrix
EnumerateTets(c) == ILoop(c, 0)

GetTetrahedra ==
  /\ tpc = "input"
  /\ conn' = BuildConn(marked_edges, longest_edge)
  /\ tet_set' = EnumerateTets(BuildConn(marked_edges, longest_edge))
  /\ tpc' = "done"
  /\ UNCHANGED <<marked_edges, longest_edge>>
  /\ UNCHANGED <<tet_vertex_global, tet_new_cells, tet_parent_facet>>
  /\ UNCHANGED <<enforce_vars, refine_vars, ext_vars>>

\* the global indices of the four vertices of the cell, in local order
TetNumberings == {<<0, 1, 2, 3>>, <<2, 0, 3, 1>>}

TetIdle ==
  /\ marked_edges = [e \in 0..(NumCellEdges3 - 1) |-> FALSE]
  /\ longest_edge = [f \in 0..(NumFacets3 - 1) |-> 0]
  /\ conn = {}
  /\ tet_set = <<>>
  /\ tpc = "idle"
  /\ tet_vertex_global = <<>>
  /\ tet_new_cells = <<>>
  /\ tet_parent_facet = <<>>

EnforceIdle ==
  /\ owner = [f \in Faces |-> 1]
  /\ long_edge = [f \in Faces |-> 2 * f]
  /\ marked = [p \in Procs |-> {}]
  /\ pc = [p \in Procs |-> "idle"]
  /\ round = [p \in Procs |-> 0]
  /\ update_count = [p \in Procs |-> 0]
  /\ sync_sent = [p \in Procs |-> <<>>]
  /\ sum_sent = [p \in Procs |-> <<>>]
  /\ run = [p \in Procs |-> 1]
  /\ marked0 = marked
  /\ initial = marked

RefineIdle ==
  /\ ncells = 1
  /\ edge_shift = 0
  /\ cell_long_edge = <<>>
  /\ p_ref_marked = {}
  /\ new_vertex_map = <<>>
  /\ indices = <<>>
  /\ parent_cell = <<>>
  /\ new_cells = <<>>
  /\ cell = 0
  /\ markers = <<>>
  /\ local_longest = 0
  /\ simplex_set = <<>>
  /\ rpc = "idle"
  /\ serial = FALSE
  /\ redistribute = FALSE
  /\ calculate_parent_facets = FALSE
  /\ new_parent_cell = <<>>
  /\ new_parent_facet = <<>>
  /\ new_mesh_arrays = {}
  /\ edge_to_global_vertex = <<>>

InitTet ==
  /\ marked_edges \in [0..(NumCellEdges3 - 1) -> BOOLEAN]
  /\ longest_edge \in [0..(NumFacets3 - 1) -> 0..(NumCellEdges3 - 1)]
  /\ \A f \in 0..(NumFacets3 - 1) : longest_edge[f] \in FacetEdges3(f)
  /\ conn = {}
  /\ tet_set = <<>>
  /\ tpc = "input"
  /\ tet_vertex_global \in TetNumberings
  /\ tet_new_cells = <<>>
  /\ tet_parent_facet = <<>>
  /\ EnforceIdle
  /\ RefineIdle
  /\ ExtIdle

\* the processes run the same code, so the distributions of the faces are
\* taken up to a renaming of the processes: a face goes to a process that
\* already holds a face or to the next process without one
CanonicalOwners(o) ==
  /\ o[1] = 1
  /\ \A f \in Faces \ {1} : \E g \in 1..(f - 1) : o[f] <= o[g] + 1

InitEnforce ==
  /\ TetIdle
  /\ RefineIdle
  /\ ExtIdle
  /\ owner \in {o \in [Faces -> Procs] : CanonicalOwners(o)}
  /\ long_edge \in {l \in [Faces -> Edges] : \A f \in Faces : l[f] \in FaceEdges(f)}
  /\ \E S \in SUBSET {pe \in Procs \X Edges : pe[2] \in LocalEdges(pe[1])} :
       marked = [p \in Procs |-> {e \in Edges : <<p, e>> \in S}]
  /\ pc = [p \in Procs |-> "call"]
  /\ round = [p \in Procs |-> 0]
  /\ update_count = [p \in Procs |-> 1]
  /\ sync_sent = [p \in Procs |-> <<>>]
  /\ sum_sent = [p \in Procs |-> <<>>]
  /\ run = [p \in Procs |-> 1]
  /\ marked0 = marked
  /\ initial = marked

\* the face loop over the faces in the order of the sequence ord, from its
\* position i on
RECURSIVE ScanFacesIn(_, _, _)
ScanFacesIn(ord, i, st) ==
  IF i > Len(ord) THEN st
  ELSE ScanFacesIn(ord, i + 1, ScanFace(ord[i], st))

\* the orders in which a FaceIterator may visit the faces fs
ScanOrders(fs) ==
  {ord \in [1..Cardinality(fs) -> fs] :
     \A i, j \in 1..Cardinality(fs) : i # j => ord[i] # ord[j]}

\* return from update_logical_edgefunction, the face loop in any order of
\* the local faces, then entry of MPI::sum
SyncReturnScanAny(p) ==
  /\ pc[p] = "sync"
  /\ AllPosted(sync_sent, p)
  /\ \E ord \in ScanOrders(LocalFaces(p)) :
       LET st == ScanFacesIn(ord, 1, <<update_logical_edgefunction(p), update_count[p]>>)
       IN /\ marked' = [marked EXCEPT ![p] = st[1]]
          /\ update_count' = [update_count EXCEPT ![p] = st[2]]
          /\ sum_sent' = [sum_sent EXCEPT ![p] = Append(@, st[2])]
  /\ pc' = [pc EXCEPT ![p] = "sum"]
  /\ UNCHANGED <<owner, long_edge, round, sync_sent, run, marked0, initial>>
  /\ UNCHANGED <<tet_vars, refine_vars, ext_vars>>

\* one call of enforce_rules on every process, the faces of a process
\* visited in any order
NextEnforceAnyOrder ==
  \E p \in Procs :
    \/ Call(p)
    \/ SyncReturnScanAny(p)
    \/ SumReturnContinue(p)
    \/ SumReturnExit(p)

SpecEnforceAnyOrder == InitEnforce /\ [][NextEnforceAnyOrder]_vars

\* one call of enforce_rules on every process
NextEnforce ==
  \E p \in Procs :
    \/ Call(p)
    \/ SyncReturnScan(p)
    \/ SumReturnContinue(p)
    \/ SumReturnExit(p)

SpecEnforce == InitEnforce /\ [][NextEnforce]_vars

\* the same, and every process may call enforce_rules a second time
NextEnforceTwice ==
  \E p \in Procs :
    \/ Call(p)
    \/ SyncReturnScan(p)
    \/ SumReturnContinue(p)
    \/ SumReturnExit(p)
    \/ Rerun(p)

SpecEnforceTwice == InitEnforce /\ [][NextEnforceTwice]_vars

\* a process that can take a step of enforce_rules eventually takes one
FairSpecEnforce == SpecEnforce /\ WF_vars(NextEnforce)

(* ---------------------------------------------------------------------- *)
(* The 2D mesh of do_refine: cell c has the vertices c, c+1, c+2 (global   *)
(* indices); its local edge p is the edge opposite its local vertex p.     *)
(* ---------------------------------------------------------------------- *)
TDim2 == 2

NumCellVertices2 == TDim2 + 1

NumCellEdges2 == TDim2 * 3 - 3

NumMeshEdges(n) == 2 * n + 1

NumMeshVertices(n) == n + 2

\* global index of local vertex i of cell c
CellVertex(c, i) == c + i

\* position of the edge {a, b}, a < b, in the unshifted edge numbering
CanonEdge(a, b) == IF b = a + 1 THEN 2 * a ELSE 2 * a + 1

\* cell->entities(1)[p]: mesh index of local edge p of cell c
CellEdge(c, p) ==
  LET a == IF p = 0 THEN c + 1 ELSE c
      b == IF p = 2 THEN c + 1 ELSE c + 2
  IN (CanonEdge(a, b) + edge_shift) % NumMeshEdges(ncells)

\* the markers satisfy the rule on every cell
RuleHolds2(n, shift, le, M) ==
  \A c \in 0..(n - 1) :
    (\E p \in 0..2 :
       LET a == IF p = 0 THEN c + 1 ELSE c
           b == IF p = 2 THEN c + 1 ELSE c + 2
       IN (CanonEdge(a, b) + shift) % NumMeshEdges(n) \in M)
    => le[c + 1] \in M

(* ---------------------------------------------------------------------- *)
(* get_triangles                                                           *)
(* ---------------------------------------------------------------------- *)
\* mutant: the second half tests the marker of v0 again
GetTriangles_samehalf(m, longest) ==
  LET v0 == (longest + 1) % 3
      v1 == (longest + 2) % 3
      v2 == longest
      e0 == v0 + 3
      e1 == v1 + 3
      e2 == v2 + 3
  IN (IF m[v0] THEN << <<e2, v2, e0>>, <<e2, e0, v1>> >>
               ELSE << <<e2, v2, v1>> >>)
     \o (IF m[v0] THEN << <<e2, v2, e1>>, <<e2, e1, v0>> >>
                  ELSE << <<e2, v2, v0>> >>)

GetTriangles(m, longest) ==
  LET v0 == (longest + 1) % 3
      v1 == (longest + 2) % 3
      v2 == longest
      e0 == v0 + 3
      e1 == v1 + 3
      e2 == v2 + 3
  IN (IF m[v0] THEN << <<e2, v2, e0>>, <<e2, e0, v1>> >>
               ELSE << <<e2, v2, v1>> >>)
     \o (IF m[v1] THEN << <<e2, v2, e1>>, <<e2, e1, v0>> >>
                  ELSE << <<e2, v2, v0>> >>)

(* ---------------------------------------------------------------------- *)
(* do_refine (tdim = 2, one process)                                       *)
(* ---------------------------------------------------------------------- *)
\* vectors are sequences; v[i] of the code is At(v, i)
At(v, i) == v[i + 1]

\* std::vector::resize: truncate, or extend with zeros
Resize(v, n) == [k \in 1..n |-> IF k <= Len(v) THEN v[k] ELSE 0]

\* create_new_vertices: one new global vertex per marked edge, numbered
\* after the vertices of the mesh in the order of the edge indices
CreateNewVertexMap ==
  [e \in p_ref_marked |->
     NumMeshVertices(ncells) + Cardinality({d \in p_ref_marked : d < e})]

\* p_ref.marked_edge_list(cell): local positions of the marked edges
MarkedEdgeList(c) ==
  SelectSeq(<<0, 1, 2>>, LAMBDA p : CellEdge(c, p) \in p_ref_marked)

\* indices after the loop writing the global vertex indices of the cell
WithCellVertices(v, c) ==
  [k \in 1..Len(v) |-> IF k <= NumCellVertices2 THEN CellVertex(c, k - 1)
                       ELSE v[k]]

\* mutant: only the first edge of marked_edge_list gets its new vertex
WithNewVertices_first(v, c, list) ==
  [k \in 1..Len(v) |->
     IF NumCellVertices2 + list[1] = k - 1
     THEN new_vertex_map[CellEdge(c, k - 1 - NumCellVertices2)]
     ELSE v[k]]

\* indices after the loop over marked_edge_list
WithNewVertices(v, c, list) ==
  [k \in 1..Len(v) |->
     IF \E n \in 1..Len(list) : NumCellVertices2 + list[n] = k - 1
     THEN new_vertex_map[CellEdge(c, k - 1 - NumCellVertices2)]
     ELSE v[k]]

\* mutant: the mesh edge index is used as the cell-local index
ToLocalIndex_noconvert(c, e) == e % 3

\* "Convert to cell local index": the position of mesh edge e in the cell
ToLocalIndex(c, e) ==
  IF \E pos \in 0..(NumCellEdges2 - 1) : CellEdge(c, pos) = e
  THEN CHOOSE pos \in 0..(NumCellEdges2 - 1) :
         /\ CellEdge(c, pos) = e
         /\ \A q \in 0..(pos - 1) : CellEdge(c, q) # e
  ELSE e

\* "Convert from cell local index to mesh index"
ToMeshIndex(v, simplex) == [k \in 1..Len(simplex) |-> At(v, simplex[k])]

\* p_ref.create_new_vertices() and the declarations before the cell loop
CreateNewVertices ==
  /\ rpc = "start"
  /\ new_vertex_map' = CreateNewVertexMap
  /\ indices' = [k \in 1..(NumCellVertices2 + NumCellEdges2) |-> 0]
  /\ parent_cell' = <<>>
  /\ cell' = 0
  /\ rpc' = "cells"
  /\ UNCHANGED <<ncells, edge_shift, cell_long_edge, p_ref_marked, new_cells,
                 markers, local_longest, simplex_set>>
  /\ UNCHANGED <<enforce_vars, tet_vars, ext_vars, tail_vars>>

\* one iteration of the cell loop, for a cell without marked edge
CopyCell ==
  /\ rpc = "cells"
  /\ cell < ncells
  /\ Len(MarkedEdgeList(cell)) = 0
  /\ LET v == Resize(WithCellVertices(indices, cell), NumCellVertices2)
     IN /\ indices' = v
        /\ new_cells' = Append(new_cells, v)
  /\ parent_cell' = Append(parent_cell, cell)
  /\ cell' = cell + 1
  /\ UNCHANGED <<ncells, edge_shift, cell_long_edge, p_ref_marked,
                 new_vertex_map, markers, local_longest, simplex_set, rpc>>
  /\ UNCHANGED <<enforce_vars, tet_vars, ext_vars, tail_vars>>

\* mutant: the parent is pushed once for the cell, after its simplices
PushParents_once(pcell, n, c) == Append(pcell, c)

\* parent_cell.push_back(cell->index()), once for each of the n simplices
\* given to p_ref.new_cell
PushParents(pcell, n, c) == pcell \o [k \in 1..n |-> c]

\* one iteration of the cell loop, for a cell with a marked edge
RefineCell ==
  /\ rpc = "cells"
  /\ cell < ncells
  /\ Len(MarkedEdgeList(cell)) # 0
  /\ LET list == MarkedEdgeList(cell)
         v == WithNewVertices(
                Resize(WithCellVertices(indices, cell),
                       NumCellVertices2 + NumCellEdges2),
                cell, list)
         mk == [p \in 0..(NumCellEdges2 - 1) |->
                  \E n \in 1..Len(list) : list[n] = p]
         le == ToLocalIndex(cell, At(cell_long_edge, cell))
         tris == GetTriangles(mk, le)
     IN /\ indices' = v
        /\ markers' = mk
        /\ local_longest' = le
        /\ simplex_set' = tris
        /\ new_cells' = new_cells \o [n \in 1..Len(tris) |-> ToMeshIndex(v, tris[n])]
        /\ parent_cell' = PushParents(parent_cell, Len(tris), cell)
  /\ cell' = cell + 1
  /\ UNCHANGED <<ncells, edge_shift, cell_long_edge, p_ref_marked,
                 new_vertex_map, rpc>>
  /\ UNCHANGED <<enforce_vars, tet_vars, ext_vars, tail_vars>>

\* after the cell loop, the communicator has one process: serial is true
\* and p_ref.build_local(new_mesh) is called
BuildLocal ==
  /\ rpc = "cells"
  /\ cell = ncells
  /\ serial' = TRUE
  /\ rpc' = "done"
  /\ UNCHANGED <<ncells, edge_shift, cell_long_edge, p_ref_marked,
                 new_vertex_map, indices, parent_cell, new_cells, cell,
                 markers, local_longest, simplex_set>>
  /\ UNCHANGED <<redistribute, calculate_parent_facets, new_parent_cell,
                 new_parent_facet, new_mesh_arrays, edge_to_global_vertex>>
  /\ UNCHANGED <<enforce_vars, tet_vars, ext_vars>>

InitRefine ==
  /\ ncells \in 1..MaxCells
  /\ edge_shift \in 0..(NumMeshEdges(ncells) - 1)
  /\ cell_long_edge \in [1..ncells -> 0..(NumMeshEdges(ncells) - 1)]
  /\ \A c \in 0..(ncells - 1) :
       \E p \in 0..(NumCellEdges2 - 1) : At(cell_long_edge, c) = CellEdge(c, p)
  /\ p_ref_marked \in SUBSET (0..(NumMeshEdges(ncells) - 1))
  /\ RuleHolds2(ncells, edge_shift, cell_long_edge, p_ref_marked)
  /\ new_vertex_map = <<>>
  /\ indices = <<>>
  /\ parent_cell = <<>>
  /\ new_cells = <<>>
  /\ cell = 0
  /\ markers = [p \in 0..(NumCellEdges2 - 1) |-> FALSE]
  /\ local_longest = 0
  /\ simplex_set = <<>>
  /\ rpc = "start"
  /\ serial = FALSE
  /\ redistribute \in BOOLEAN
  /\ calculate_parent_facets \in BOOLEAN
  /\ new_parent_cell = <<>>
  /\ new_parent_facet = <<>>
  /\ new_mesh_arrays = {}
  /\ edge_to_global_vertex = <<>>
  /\ EnforceIdle
  /\ TetIdle
  /\ ExtIdle

(* ---------------------------------------------------------------------- *)
(* face_long_edge                                                          *)
(* ---------------------------------------------------------------------- *)
\* Lengths are compared through their squares: Edge::length is the square
\* root of the squared distance of the end points, which keeps the order
\* and the equality of the squared distances of the coordinates used here.

\* mutant: equal lengths never replace the edge found so far
LongEdgeStep_notie(st, e_len, global_i, index) ==
  IF e_len > st[3]
  THEN <<index, global_i, e_len>>
  ELSE st

\* mutant: gimax is not updated with a longer edge
LongEdgeStep_keepgi(st, e_len, global_i, index) ==
  IF e_len > st[3] \/ (e_len = st[3] /\ global_i > st[2])
  THEN <<index, IF e_len > st[3] THEN st[2] ELSE global_i, e_len>>
  ELSE st

\* body of the loop over the edges of a face, st = <<imax, gimax, max_len>>
LongEdgeStep(st, e_len, global_i, index) ==
  IF e_len > st[3] \/ (e_len = st[3] /\ global_i > st[2])
  THEN <<index, global_i, e_len>>
  ELSE st

\* the loop, over the edges at the local positions k, k+1, ... of the face:
\* lens[k] the length of the edge, gis[k] the global index of the face
\* vertex at the same position, idxs[k] the mesh index of the edge
RECURSIVE LongEdgeScan(_, _, _, _, _)
LongEdgeScan(st, k, lens, gis, idxs) ==
  IF k > Len(lens) THEN st
  ELSE LongEdgeScan(LongEdgeStep(st, lens[k], gis[k], idxs[k]),
                    k + 1, lens, gis, idxs)

\* result[f->index()] for one face
FaceLongEdge(lens, gis, idxs) == LongEdgeScan(<<0, 0, 0>>, 1, lens, gis, idxs)[1]

(* ---------------------------------------------------------------------- *)
(* A triangle mesh given by its cells (triples of global vertex indices)   *)
(* and the coordinates of its vertices; the local edge p of a cell is the  *)
(* edge opposite its local vertex p, and the edges of the mesh are         *)
(* numbered in the order of their end vertices.                            *)
(* ---------------------------------------------------------------------- *)
\* end vertices of local edge p (0, 1, 2) of the cell cl
CellEdgeVerts(cl, p) == {cl[q] : q \in (1..3) \ {p + 1}}

MeshEdgeSet(cells) ==
  UNION {{CellEdgeVerts(cells[c], p) : p \in 0..2} : c \in 1..Len(cells)}

EdgeMin(e) == CHOOSE a \in e : \A b \in e : a <= b

EdgeMax(e) == CHOOSE a \in e : \A b \in e : a >= b

EdgeBefore(d, e) ==
  \/ EdgeMin(d) < EdgeMin(e)
  \/ EdgeMin(d) = EdgeMin(e) /\ EdgeMax(d) < EdgeMax(e)

\* e->index() of the edge with the end vertices e, among the edge set E
MeshEdgeIndex(E, e) == Cardinality({d \in E : EdgeBefore(d, e)})

\* cell->entities(1) of cell c: the mesh indices of its three edges
CellEdgeIndices(cells, c) ==
  LET E == MeshEdgeSet(cells)
  IN [i \in 1..3 |-> MeshEdgeIndex(E, CellEdgeVerts(cells[c], i - 1))]

\* square of the length of the edge with the end vertices e
SqLength(coords, e) ==
  LET a == coords[EdgeMin(e) + 1]
      b == coords[EdgeMax(e) + 1]
  IN (a[1] - b[1]) * (a[1] - b[1]) + (a[2] - b[2]) * (a[2] - b[2])

\* twice the signed area of the triangle with the corners a, b, c
Det(a, b, c) == (b[1] - a[1]) * (c[2] - a[2]) - (c[1] - a[1]) * (b[2] - a[2])

Abs(x) == IF x < 0 THEN -x ELSE x

\* twice the area of cell cl
CellArea2(coords, cl) ==
  Abs(Det(coords[cl[1] + 1], coords[cl[2] + 1], coords[cl[3] + 1]))

RECURSIVE SumSeq(_)
SumSeq(q) == IF q = <<>> THEN 0 ELSE Head(q) + SumSeq(Tail(q))

MeshArea2(cells, coords) ==
  SumSeq([c \in 1..Len(cells) |-> CellArea2(coords, cells[c])])

RECURSIVE Flatten(_)
Flatten(q) == IF q = <<>> THEN <<>> ELSE Head(q) \o Flatten(Tail(q))

(* ---------------------------------------------------------------------- *)
(* set_parent_facet_markers (tdim = 2) and the end of do_refine            *)
(* ---------------------------------------------------------------------- *)
\* std::numeric_limits<std::size_t>::max(), at the width of the integers
\* of the model
NoParent == 2147483647

\* global vertex indices of local facet i of parent cell c
ParentFacetVertices(c, i) == {CellVertex(c, q) : q \in (0..2) \ {i}}

\* mutant: the new vertex of a divided edge is not added
ParentFacetSet_nonew(c, i) == ParentFacetVertices(c, i)

\* vset of facet i of parent cell c: its vertices, and the new vertex of
\* the edge if the edge was divided
ParentFacetSet(c, i) ==
  ParentFacetVertices(c, i)
    \cup (IF CellEdge(c, i) \in DOMAIN new_vertex_map
          THEN {new_vertex_map[CellEdge(c, i)]}
          ELSE {})

\* facet_sets of parent cell c
FacetSets(c) == [i \in 1..NumCellEdges2 |-> ParentFacetSet(c, i - 1)]

\* pcell->entities(tdim - 1) of parent cell c
ParentFacets(c) == [i \in 1..NumCellEdges2 |-> CellEdge(c, i - 1)]

\* mutant: the position of the facet in the cell is stored
MatchLoop_position(cur, i, fverts, fsets, pfacets) ==
  IF \E k \in i..Len(fsets) : fverts \subseteq fsets[k]
  THEN (CHOOSE k \in i..Len(fsets) :
          /\ fverts \subseteq fsets[k]
          /\ \A j \in (k + 1)..Len(fsets) : ~(fverts \subseteq fsets[j])) - 1
  ELSE cur

\* the loop over facet_sets for one child facet with the vertices fverts,
\* from position i on; cur is new_parent_facet[f->index()]
RECURSIVE MatchLoop(_, _, _, _, _)
MatchLoop(cur, i, fverts, fsets, pfacets) ==
  IF i > Len(fsets) THEN cur
  ELSE MatchLoop(IF fverts \subseteq fsets[i] THEN pfacets[i] ELSE cur,
                 i + 1, fverts, fsets, pfacets)

\* mutant: a facet that matches no set is given the first parent facet
TagFacet_default(npf, fidx, fverts, fsets, pfacets) ==
  IF npf[fidx + 1] = NoParent
  THEN [npf EXCEPT ![fidx + 1] = MatchLoop(pfacets[1], 1, fverts, fsets, pfacets)]
  ELSE npf

\* one child facet: "Check not already assigned", then the loop
TagFacet(npf, fidx, fverts, fsets, pfacets) ==
  IF npf[fidx + 1] = NoParent
  THEN [npf EXCEPT ![fidx + 1] =
          MatchLoop(npf[fidx + 1], 1, fverts, fsets, pfacets)]
  ELSE npf

\* the facets k, k+1, ... of the child cell with the vertices cl
RECURSIVE TagChildFacets(_, _, _, _, _, _)
TagChildFacets(npf, k, cl, E, fsets, pfacets) ==
  IF k > 2 THEN npf
  ELSE TagChildFacets(
         TagFacet(npf, MeshEdgeIndex(E, CellEdgeVerts(cl, k)),
                  CellEdgeVerts(cl, k), fsets, pfacets),
         k + 1, cl, E, fsets, pfacets)

\* reverse_cell_map[c]: the cells of the new mesh with parent cell c
ReverseCellMap(pcells, c) == {n \in 1..Len(pcells) : pcells[n] = c}

\* the children of one parent cell, in increasing order of their index
RECURSIVE TagChildren(_, _, _, _, _, _)
TagChildren(npf, todo, cells, E, fsets, pfacets) ==
  IF todo = {} THEN npf
  ELSE LET n == CHOOSE x \in todo : \A y \in todo : x <= y
       IN TagChildren(TagChildFacets(npf, 0, cells[n], E, fsets, pfacets),
                      todo \ {n}, cells, E, fsets, pfacets)

\* the loop over the parent cells c, c+1, ...
RECURSIVE TagParents(_, _, _, _, _)
TagParents(npf, c, cells, pcells, E) ==
  IF c >= ncells THEN npf
  ELSE TagParents(TagChildren(npf, ReverseCellMap(pcells, c), cells, E,
                              FacetSets(c), ParentFacets(c)),
                  c + 1, cells, pcells, E)

\* set_parent_facet_markers(mesh, new_mesh, new_vertex_map): the array
\* "parent_facet" of the new mesh with the cells `cells`
SetParentFacetMarkers(cells, pcells) ==
  LET E == MeshEdgeSet(cells)
  IN TagParents([k \in 1..Cardinality(E) |-> NoParent], 0, cells, pcells, E)

\* after the cell loop, the communicator has more than one process: serial
\* is false and p_ref.partition(new_mesh, redistribute) is called; without
\* redistribution the cells stay where they are
Partition ==
  /\ rpc = "cells"
  /\ cell = ncells
  /\ serial' = FALSE
  /\ rpc' = "done"
  /\ UNCHANGED <<ncells, edge_shift, cell_long_edge, p_ref_marked,
                 new_vertex_map, indices, parent_cell, new_cells, cell,
                 markers, local_longest, simplex_set>>
  /\ UNCHANGED <<redistribute, calculate_parent_facets, new_parent_cell,
                 new_parent_facet, new_mesh_arrays, edge_to_global_vertex>>
  /\ UNCHANGED <<enforce_vars, tet_vars, ext_vars>>

\* mutant: the parent data is created on a single process only
KeepsParentData_serial(ser, redist) == ser

\* the test before "Create parent data on new mesh"
KeepsParentData(ser, redist) == ser \/ ~redist

\* "Create parent data on new mesh"
CreateParentData ==
  /\ rpc = "done"
  /\ KeepsParentData(serial, redistribute)
  /\ new_parent_cell' = parent_cell
  /\ new_parent_facet' =
       IF calculate_parent_facets
       THEN SetParentFacetMarkers(new_cells, parent_cell)
       ELSE new_parent_facet
  /\ new_mesh_arrays' =
       new_mesh_arrays \cup
         (IF calculate_parent_facets
          THEN {"parent_cell", "parent_facet"}
          ELSE {"parent_cell"})
  /\ edge_to_global_vertex' = <<new_vertex_map>>
  /\ rpc' = "end"
  /\ UNCHANGED <<ncells, edge_shift, cell_long_edge, p_ref_marked,
                 new_vertex_map, indices, parent_cell, new_cells, cell,
                 markers, local_longest, simplex_set>>
  /\ UNCHANGED <<serial, redistribute, calculate_parent_facets>>
  /\ UNCHANGED <<enforce_vars, tet_vars, ext_vars>>

\* the cells were redistributed: no parent data is created
SkipParentData ==
  /\ rpc = "done"
  /\ ~KeepsParentData(serial, redistribute)
  /\ rpc' = "end"
  /\ UNCHANGED <<ncells, edge_shift, cell_long_edge, p_ref_marked,
                 new_vertex_map, indices, parent_cell, new_cells, cell,
                 markers, local_longest, simplex_set>>
  /\ UNCHANGED <<enforce_vars, tet_vars, ext_vars, tail_vars>>

NextRefine ==
  \/ CreateNewVertices
  \/ CopyCell
  \/ RefineCell
  \/ BuildLocal
  \/ Partition
  \/ CreateParentData
  \/ SkipParentData

SpecRefine == InitRefine /\ [][NextRefine]_vars

(* ---------------------------------------------------------------------- *)
(* do_refine and set_parent_facet_markers on a mesh of one tetrahedron     *)
(* (tdim = 3, one process, calculate_parent_facets)                        *)
(* ---------------------------------------------------------------------- *)
TDim3 == 3

NumCellVertices3 == TDim3 + 1

\* the sets A, B of indices in the order of their sorted sequences
RECURSIVE SetBefore(_, _)
SetBefore(A, B) ==
  IF A = {} \/ B = {} THEN A = {} /\ B # {}
  ELSE LET a == CHOOSE x \in A : \A y \in A : x <= y
           b == CHOOSE x \in B : \A y \in B : x <= y
       IN a < b \/ (a = b /\ SetBefore(A \ {a}, B \ {b}))

\* index of the entity with the vertices F among the entities S of a mesh
EntityIndex(S, F) == Cardinality({G \in S : SetBefore(G, F)})

\* new_vertex_map of the cell: local edge -> new global vertex index
TetNewVertex(e) ==
  NumCellVertices3
    + Cardinality({d \in 0..(NumCellEdges3 - 1) : marked_edges[d] /\ d < e})

\* indices of the cell: its vertices, then the new vertices of the marked
\* edges
TetIndices ==
  [k \in 1..NumSlots |->
     IF k <= NumCellVertices3 THEN tet_vertex_global[k]
     ELSE IF marked_edges[k - 1 - NumCellVertices3]
          THEN TetNewVertex(k - 1 - NumCellVertices3)
          ELSE 0]

\* the cells do_refine hands to new_cell
TetNewCells ==
  IF \A e \in 0..(NumCellEdges3 - 1) : ~marked_edges[e]
  THEN <<Resize(TetIndices, NumCellVertices3)>>
  ELSE [n \in 1..Len(tet_set) |-> ToMeshIndex(TetIndices, tet_set[n])]

\* global vertex indices of local facet i of the cell
TetFacetVertices(i) ==
  {tet_vertex_global[q + 1] : q \in (0..(NumCellVertices3 - 1)) \ {i}}

\* vset of facet i (tdim = 3): its vertices and the new vertices of its
\* divided edges
TetFacetSet(i) ==
  TetFacetVertices(i)
    \cup {TetNewVertex(e) : e \in {d \in FacetEdges3(i) : marked_edges[d]}}

\* pcell->entities(2): the mesh indices of the four facets of the cell
TetFacetIndex(i) ==
  EntityIndex({TetFacetVertices(j) : j \in 0..(NumFacets3 - 1)},
              TetFacetVertices(i))

\* the vertices of local facet k of the cell with the vertices cl
TetCellFacet(cl, k) == {cl[q] : q \in (1..Len(cl)) \ {k + 1}}

\* the facets of a mesh with the cells `cells`
TetMeshFacets(cells) ==
  UNION {{TetCellFacet(cells[n], k) : k \in 0..(NumFacets3 - 1)} :
           n \in 1..Len(cells)}

\* the facets k, k+1, ... of the child cell with the vertices cl
RECURSIVE TagTetFacets(_, _, _, _, _, _)
TagTetFacets(npf, k, cl, S, fsets, pfacets) ==
  IF k >= NumFacets3 THEN npf
  ELSE TagTetFacets(
         TagFacet(npf, EntityIndex(S, TetCellFacet(cl, k)),
                  TetCellFacet(cl, k), fsets, pfacets),
         k + 1, cl, S, fsets, pfacets)

\* the children n, n+1, ... of the cell
RECURSIVE TagTetChildren(_, _, _, _, _, _)
TagTetChildren(npf, n, cells, S, fsets, pfacets) ==
  IF n > Len(cells) THEN npf
  ELSE TagTetChildren(TagTetFacets(npf, 0, cells[n], S, fsets, pfacets),
                      n + 1, cells, S, fsets, pfacets)

\* set_parent_facet_markers for the new mesh with the cells `cells`
SetTetParentFacetMarkers(cells) ==
  LET S == TetMeshFacets(cells)
  IN TagTetChildren([k \in 1..Cardinality(S) |-> NoParent], 1, cells, S,
                    [i \in 1..NumFacets3 |-> TetFacetSet(i - 1)],
                    [i \in 1..NumFacets3 |-> TetFacetIndex(i - 1)])

\* do_refine after get_simplices has returned: the new cells, the new mesh
\* and its parent facets
RefineTet ==
  /\ tpc = "done"
  /\ tet_new_cells' = TetNewCells
  /\ tet_parent_facet' = SetTetParentFacetMarkers(TetNewCells)
  /\ tpc' = "mapped"
  /\ UNCHANGED <<marked_edges, longest_edge, conn, tet_set, tet_vertex_global>>
  /\ UNCHANGED <<enforce_vars, refine_vars, ext_vars>>

NextTet ==
  \/ GetTetrahedra
  \/ RefineTet

SpecTet == InitTet /\ [][NextTet]_vars

\* do_refine with calculate_parent_facets, on a strip of triangles or on
\* one tetrahedron
InitFacets == InitRefine \/ InitTet

NextFacets == NextRefine \/ NextTet

SpecFacets == InitFacets /\ [][NextFacets]_vars

(* ---------------------------------------------------------------------- *)
(* refine with mark_all, on one process, tdim = 2                          *)
(* ---------------------------------------------------------------------- *)
GridSize == 2      \* the corners of the first triangle are points of a grid

\* face_long_edge(mesh): in 2D the faces are the cells
MeshLongEdge(cells, coords) ==
  [c \in 1..Len(cells) |->
     FaceLongEdge([i \in 1..3 |-> SqLength(coords, CellEdgeVerts(cells[c], i - 1))],
                  cells[c],
                  CellEdgeIndices(cells, c))]

\* p_ref.mark_all(): every edge of the mesh is marked
MarkAll(cells) == 0..(Cardinality(MeshEdgeSet(cells)) - 1)

\* create_new_vertices: one new global vertex per marked edge, numbered
\* after the vertices of the mesh in the order of the edge indices
NewVertexMapOf(nverts, M) ==
  [e \in M |-> nverts + Cardinality({d \in M : d < e})]

\* the new vertex of an edge is its midpoint
MidPoint(a, b) == <<(a[1] + b[1]) \div 2, (a[2] + b[2]) \div 2>>

NewCoords(cells, coords, M) ==
  LET E == MeshEdgeSet(cells)
      edge(k) == CHOOSE d \in E :
                   /\ MeshEdgeIndex(E, d) \in M
                   /\ Cardinality({x \in M : x < MeshEdgeIndex(E, d)}) = k - 1
  IN coords \o [k \in 1..Cardinality(M) |->
                  MidPoint(coords[EdgeMin(edge(k)) + 1],
                           coords[EdgeMax(edge(k)) + 1])]

\* "Convert to cell local index" for the cell with the edge indices eidx
LocalIndexIn(eidx, e) ==
  IF \E pos \in 1..Len(eidx) : eidx[pos] = e
  THEN (CHOOSE pos \in 1..Len(eidx) :
          /\ eidx[pos] = e
          /\ \A q \in 1..(pos - 1) : eidx[q] # e) - 1
  ELSE e

\* mutant: the new vertex of local edge p is stored at slot p
MeshNewVertices_slot(v, eidx, M, nvm) ==
  [k \in 1..Len(v) |->
     IF k <= NumCellEdges2 /\ eidx[k] \in M THEN nvm[eidx[k]] ELSE v[k]]

\* indices after the loop over marked_edge_list
MeshNewVertices(v, eidx, M, nvm) ==
  [k \in 1..Len(v) |->
     IF k > NumCellVertices2 /\ eidx[k - NumCellVertices2] \in M
     THEN nvm[eidx[k - NumCellVertices2]]
     ELSE v[k]]

\* one iteration of the cell loop of do_refine, for cell c of the mesh;
\* st = <<indices, cells handed to new_cell, parent_cell>>
MeshRefineCell(cells, c, M, nvm, le, st) ==
  LET eidx == CellEdgeIndices(cells, c)
      v0 == [k \in 1..Len(st[1]) |->
               IF k <= NumCellVertices2 THEN cells[c][k] ELSE st[1][k]]
      list == SelectSeq(<<0, 1, 2>>, LAMBDA p : eidx[p + 1] \in M)
  IN IF Len(list) = 0
     THEN LET v == Resize(v0, NumCellVertices2)
          IN <<v, Append(st[2], v), Append(st[3], c - 1)>>
     ELSE LET v == MeshNewVertices(
                     Resize(v0, NumCellVertices2 + NumCellEdges2), eidx, M, nvm)
              mk == [p \in 0..(NumCellEdges2 - 1) |-> eidx[p + 1] \in M]
              tris == GetTriangles(mk, LocalIndexIn(eidx, le[c]))
          IN <<v,
               st[2] \o [n \in 1..Len(tris) |-> ToMeshIndex(v, tris[n])],
               st[3] \o [n \in 1..Len(tris) |-> c - 1]>>

\* the cell loop, from cell c on
RECURSIVE MeshRefineCells(_, _, _, _, _, _)
MeshRefineCells(cells, c, M, nvm, le, st) ==
  IF c > Len(cells) THEN st
  ELSE MeshRefineCells(cells, c + 1, M, nvm, le,
                       MeshRefineCell(cells, c, M, nvm, le, st))

\* refine(new_mesh, mesh, redistribute, calculate_parent_facets) called on
\* the mesh the previous pass has built
RefineMarkAll ==
  /\ tp_pass \in 0..1
  /\ LET le == MeshLongEdge(tp_cells, tp_coords)
         M == MarkAll(tp_cells)
         nvm == NewVertexMapOf(Len(tp_coords), M)
         st == MeshRefineCells(tp_cells, 1, M, nvm, le,
                 <<[k \in 1..(NumCellVertices2 + NumCellEdges2) |-> 0], <<>>, <<>>>>)
     IN /\ tp_cells' = st[2]
        /\ tp_coords' = NewCoords(tp_cells, tp_coords, M)
  /\ tp_pass' = tp_pass + 1
  /\ UNCHANGED tp_area
  /\ UNCHANGED <<enforce_vars, tet_vars, refine_vars, longedge_vars, values_vars,
               entry_vars, div_vars>>

\* the corners are taken on a grid of step 4, so that the midpoints of two
\* passes have integer coordinates
GridPoints == {<<4 * x, 4 * y>> : x \in 0..GridSize, y \in 0..GridSize}

InitTwoPass ==
  /\ tp_coords \in {t \in [1..3 -> GridPoints] : Det(t[1], t[2], t[3]) # 0}
  /\ tp_cells = << <<0, 1, 2>> >>
  /\ tp_pass = 0
  /\ tp_area = Abs(Det(tp_coords[1], tp_coords[2], tp_coords[3]))
  /\ EnforceIdle
  /\ TetIdle
  /\ RefineIdle
  /\ LongEdgeIdle
  /\ ValuesIdle
  /\ EntryIdle
  /\ DivIdle

NextTwoPass == RefineMarkAll

SpecTwoPass == InitTwoPass /\ [][NextTwoPass]_vars

(* ---------------------------------------------------------------------- *)
(* face_long_edge on one face, evaluated in two local numberings           *)
(* ---------------------------------------------------------------------- *)
MaxLen == 2        \* the edge lengths are 0..MaxLen
MaxGlobal == 3     \* the global vertex indices are 0..MaxGlobal

FaceVertices == 1..3

\* the evaluations of the face: by two processes, or by one process twice
Evaluations == {1, 2}

\* the three lengths are those of a triangle, which may be degenerate
TriangleLengths(l) ==
  \A v \in FaceVertices :
    l[v] <= SumOver(FaceVertices \ {v}, l)

\* the local numberings: a position holds a vertex and the edge opposite it
LocalOrders ==
  {o \in [1..3 -> FaceVertices] : \A v \in FaceVertices : \E k \in 1..3 : o[k] = v}

\* e->index() of the edge at local position k in evaluation ev
LocalEdgeIndex(ev, k) == le_first[ev] + k - 1

\* face_long_edge for the face, in the numbering of evaluation ev
Evaluate(ev) ==
  /\ le_result[ev] = -1
  /\ le_result' =
       [le_result EXCEPT ![ev] =
          FaceLongEdge([k \in 1..3 |-> le_len[le_order[ev][k]]],
                       [k \in 1..3 |-> le_gi[le_order[ev][k]]],
                       [k \in 1..3 |-> LocalEdgeIndex(ev, k)])]
  /\ UNCHANGED <<le_len, le_gi, le_order, le_first>>
  /\ UNCHANGED <<enforce_vars, tet_vars, refine_vars, twopass_vars, values_vars,
               entry_vars, div_vars>>

InitLongEdge ==
  /\ le_len \in {l \in [FaceVertices -> 0..MaxLen] : TriangleLengths(l)}
  /\ le_gi \in {g \in [FaceVertices -> 0..MaxGlobal] : g[1] < g[2] /\ g[2] < g[3]}
  /\ le_order \in [Evaluations -> LocalOrders]
  /\ le_first \in [Evaluations -> 0..1]
  /\ le_result = [ev \in Evaluations |-> -1]
  /\ EnforceIdle
  /\ TetIdle
  /\ RefineIdle
  /\ TwoPassIdle
  /\ ValuesIdle
  /\ EntryIdle
  /\ DivIdle

NextLongEdge == \E ev \in Evaluations : Evaluate(ev)

SpecLongEdge == InitLongEdge /\ [][NextLongEdge]_vars

(* ---------------------------------------------------------------------- *)
(* MeshPartitioning::build_mesh_value_collection, run by every process     *)
(* ---------------------------------------------------------------------- *)
NumGCells == 2     \* cells of the target mesh, with the global indices 0..
MaxTuples == 2     \* tuples held by all processes together

\* local entity indices within a cell: the two vertices of an interval
NumLocalEntities == 2

GCells == 0..(NumGCells - 1)

Keys == GCells \X (0..(NumLocalEntities - 1))

\* The values are opaque to the code; each tuple is given a value of its
\* own, so that a value set at a wrong position is seen.
TupleValue(k) == 1 + k[1] * NumLocalEntities + k[2]

\* a value no tuple has: the content of mesh_values before the call
StaleValue == 0

\* the elements of a set of integers, in decreasing and in increasing order
RECURSIVE DescSeq(_)
DescSeq(S) ==
  IF S = {} THEN <<>>
  ELSE LET m == CHOOSE x \in S : \A y \in S : x >= y
       IN <<m>> \o DescSeq(S \ {m})

RECURSIVE AscSeq(_)
AscSeq(S) ==
  IF S = {} THEN <<>>
  ELSE LET m == CHOOSE x \in S : \A y \in S : x <= y
       IN <<m>> \o AscSeq(S \ {m})

HostedCells(p) == {c \in GCells : p \in vc_hosts[c]}

\* mesh.topology().global_indices(D) of process p: the global index of each
\* local cell; a process lists its cells from the highest global index down
GlobalEntityIndices(p) ==
  IF vc_have_global[p] THEN DescSeq(HostedCells(p)) ELSE <<>>

\* map_of_global_entity_indices of process p
MapOfGlobalEntityIndices(p) ==
  LET g == GlobalEntityIndices(p)
  IN [c \in {g[i] : i \in 1..Len(g)} |-> (CHOOSE i \in 1..Len(g) : g[i] = c) - 1]

\* MeshValueCollection::set_value: the value at (cell, entity) is set,
\* replacing the one that was there
SetValue(M, lc, le, v) ==
  {t \in M : t[1] # lc \/ t[2] # le} \cup {<<lc, le, v>>}

\* mutant: the test is left out
NoGlobalIndices_never(p) == FALSE

\* the test of have_global_indices(D) fails
NoGlobalIndices(p) == ~vc_have_global[p]

\* mutant: the global cell index is used as the local one
LocalStep_global(p, t, st) ==
  IF t[1] \in DOMAIN MapOfGlobalEntityIndices(p)
  THEN <<SetValue(st[1], t[1], t[2], t[3]), st[2]>>
  ELSE <<st[1], Append(st[2], t[1])>>

\* body of the loop over ldata for the tuple t; st = <<markers,
\* off_process_global_cell_entities>>
LocalStep(p, t, st) ==
  IF t[1] \in DOMAIN MapOfGlobalEntityIndices(p)
  THEN <<SetValue(st[1], MapOfGlobalEntityIndices(p)[t[1]], t[2], t[3]), st[2]>>
  ELSE <<st[1], Append(st[2], t[1])>>

\* "Add local (to this process) data to domain marker", from tuple i on
RECURSIVE LocalLoop(_, _, _)
LocalLoop(p, i, st) ==
  IF i > Len(vc_ldata[p]) THEN st
  ELSE LocalLoop(p, i + 1, LocalStep(p, vc_ldata[p][i], st))

\* locate_off_process_entities(off, D, mesh) called by p: for each global
\* cell index of `off` the pairs <<process, local index on it>> of the
\* other processes holding the cell
LocateOffProcessEntities(p, off) ==
  [c \in {off[i] : i \in 1..Len(off)} |->
     {<<q, MapOfGlobalEntityIndices(q)[c]>> : q \in vc_hosts[c] \ {p}}]

\* the pushes of the packing loops, in order: <<proc, local_cell_entity,
\* local_entity_index, domain_value>>
PackItems(p) ==
  LET hosts == LocateOffProcessEntities(p, vc_off[p])
      cs == AscSeq(DOMAIN hosts)
      forTuple(c, i) ==
        LET ps == AscSeq({pd[1] : pd \in hosts[c]})
        IN [n \in 1..Len(ps) |->
              <<ps[n],
                (CHOOSE pd \in hosts[c] : pd[1] = ps[n])[2],
                vc_ldata[p][i][2],
                vc_ldata[p][i][3]>>]
      forCell(c) ==
        LET is == AscSeq({i \in 1..Len(vc_ldata[p]) : vc_ldata[p][i][1] = c})
        IN Flatten([n \in 1..Len(is) |-> forTuple(c, is[n])])
  IN Flatten([n \in 1..Len(cs) |-> forCell(cs[n])])

\* mutant: the value is pushed once for a tuple, after its destinations
PackPrefix_onevalue(items, n) ==
  LET upto == SubSeq(items, 1, n)
      at(d) == SelectSeq(upto, LAMBDA it : it[1] = d)
  IN [data0 |-> [d \in Procs |->
                   Flatten([k \in 1..Len(at(d)) |-> <<at(d)[k][2], at(d)[k][3]>>])],
      data1 |-> [d \in Procs |->
                   [k \in 1..(IF Len(at(d)) > 1 THEN 1 ELSE Len(at(d))) |->
                      at(d)[k][4]]]]

\* send_data0 and send_data1 after the first n pushes
PackPrefix(items, n) ==
  LET upto == SubSeq(items, 1, n)
      at(d) == SelectSeq(upto, LAMBDA it : it[1] = d)
  IN [data0 |-> [d \in Procs |->
                   Flatten([k \in 1..Len(at(d)) |-> <<at(d)[k][2], at(d)[k][3]>>])],
      data1 |-> [d \in Procs |-> [k \in 1..Len(at(d)) |-> at(d)[k][4]]]]

\* MPI::all_to_all: what p receives of the buffers `sent` of all processes
AllToAll(sent, p) == [src \in Procs |-> sent[src][p]]

\* mutant: the indices of the i-th value are read at i and i + 1
ApplyStep_stride(M, r0, r1, i) ==
  SetValue(M, r0[i + 1], r0[i + 2], r1[i + 1])

\* body of the inner loop of "Add received data to mesh domain"; the
\* vectors are indexed from 0 in the code
ApplyStep(M, r0, r1, i) ==
  SetValue(M, r0[2 * i + 1], r0[2 * i + 2], r1[i + 1])

RECURSIVE ApplyFrom(_, _, _, _)
ApplyFrom(M, r0, r1, i) ==
  IF i >= Len(r1) THEN M
  ELSE ApplyFrom(ApplyStep(M, r0, r1, i), r0, r1, i + 1)

\* the loop over the source processes src, src + 1, ...
RECURSIVE ApplyReceived(_, _, _, _)
ApplyReceived(M, recv0, recv1, src) ==
  IF src > NumProcs THEN M
  ELSE ApplyReceived(ApplyFrom(M, recv0[src], recv1[src], 0),
                     recv0, recv1, src + 1)

\* every process has made at least n collective calls
AllCalled(n) == \A q \in Procs : Len(vc_calls[q]) >= n

\* up to number_entities: mesh.init, mesh_values.clear() and the call
VcEnter(p) ==
  /\ vc_pc[p] = "start"
  /\ vc_values' = [vc_values EXCEPT ![p] = {}]
  /\ vc_calls' = [vc_calls EXCEPT ![p] = Append(@, "number_entities")]
  /\ vc_pc' = [vc_pc EXCEPT ![p] = "number"]
  /\ UNCHANGED <<vc_hosts, vc_have_global, vc_ldata, vc_off, vc_send0, vc_send1,
                 vc_recv0, vc_recv1>>
  /\ UNCHANGED <<enforce_vars, tet_vars, refine_vars, twopass_vars, longedge_vars,
                 entry_vars, div_vars>>

\* number_entities has returned and the mesh has no global cell indices:
\* dolfin_error
VcError(p) ==
  /\ vc_pc[p] = "number"
  /\ AllCalled(1)
  /\ NoGlobalIndices(p)
  /\ vc_pc' = [vc_pc EXCEPT ![p] = "error"]
  /\ UNCHANGED <<vc_hosts, vc_have_global, vc_ldata, vc_values, vc_off, vc_send0,
                 vc_send1, vc_recv0, vc_recv1, vc_calls>>
  /\ UNCHANGED <<enforce_vars, tet_vars, refine_vars, twopass_vars, longedge_vars,
                 entry_vars, div_vars>>

\* number_entities has returned: the local data is added, and
\* locate_off_process_entities is called
VcLocal(p) ==
  /\ vc_pc[p] = "number"
  /\ AllCalled(1)
  /\ ~NoGlobalIndices(p)
  /\ LET st == LocalLoop(p, 1, <<vc_values[p], <<>>>>)
     IN /\ vc_values' = [vc_values EXCEPT ![p] = st[1]]
        /\ vc_off' = [vc_off EXCEPT ![p] = st[2]]
  /\ vc_calls' = [vc_calls EXCEPT ![p] = Append(@, "locate_off_process_entities")]
  /\ vc_pc' = [vc_pc EXCEPT ![p] = "locate"]
  /\ UNCHANGED <<vc_hosts, vc_have_global, vc_ldata, vc_send0, vc_send1,
                 vc_recv0, vc_recv1>>
  /\ UNCHANGED <<enforce_vars, tet_vars, refine_vars, twopass_vars, longedge_vars,
                 entry_vars, div_vars>>

\* the query has returned: the buffers are packed and the first
\* all_to_all is called
VcPack(p) ==
  /\ vc_pc[p] = "locate"
  /\ AllCalled(2)
  /\ LET packed == PackPrefix(PackItems(p), Len(PackItems(p)))
     IN /\ vc_send0' = [vc_send0 EXCEPT ![p] = packed.data0]
        /\ vc_send1' = [vc_send1 EXCEPT ![p] = packed.data1]
  /\ vc_calls' = [vc_calls EXCEPT ![p] = Append(@, "all_to_all")]
  /\ vc_pc' = [vc_pc EXCEPT ![p] = "exchange0"]
  /\ UNCHANGED <<vc_hosts, vc_have_global, vc_ldata, vc_values, vc_off,
                 vc_recv0, vc_recv1>>
  /\ UNCHANGED <<enforce_vars, tet_vars, refine_vars, twopass_vars, longedge_vars,
                 entry_vars, div_vars>>

\* the first all_to_all has returned, the second is called
VcExchange(p) ==
  /\ vc_pc[p] = "exchange0"
  /\ AllCalled(3)
  /\ vc_recv0' = [vc_recv0 EXCEPT ![p] = AllToAll(vc_send0, p)]
  /\ vc_calls' = [vc_calls EXCEPT ![p] = Append(@, "all_to_all")]
  /\ vc_pc' = [vc_pc EXCEPT ![p] = "exchange1"]
  /\ UNCHANGED <<vc_hosts, vc_have_global, vc_ldata, vc_values, vc_off,
                 vc_send0, vc_send1, vc_recv1>>
  /\ UNCHANGED <<enforce_vars, tet_vars, refine_vars, twopass_vars, longedge_vars,
                 entry_vars, div_vars>>

\* the second all_to_all has returned: the received data is added
VcApply(p) ==
  /\ vc_pc[p] = "exchange1"
  /\ AllCalled(4)
  /\ vc_recv1' = [vc_recv1 EXCEPT ![p] = AllToAll(vc_send1, p)]
  /\ vc_values' = [vc_values EXCEPT ![p] =
                     ApplyReceived(@, vc_recv0[p], AllToAll(vc_send1, p), 1)]
  /\ vc_pc' = [vc_pc EXCEPT ![p] = "done"]
  /\ UNCHANGED <<vc_hosts, vc_have_global, vc_ldata, vc_off, vc_send0, vc_send1,
                 vc_recv0, vc_calls>>
  /\ UNCHANGED <<enforce_vars, tet_vars, refine_vars, twopass_vars, longedge_vars,
                 entry_vars, div_vars>>

\* the tuples of the set T of keys that process p holds, from the highest
\* key down
LdataOf(T, holder, p) ==
  LET codes == DescSeq({TupleValue(k) : k \in {x \in T : holder[x] = p}})
  IN [n \in 1..Len(codes) |->
        LET k == CHOOSE x \in T : TupleValue(x) = codes[n]
        IN <<k[1], k[2], TupleValue(k)>>]

InitValues ==
  /\ vc_hosts \in [GCells -> (SUBSET Procs) \ {{}}]
  /\ vc_have_global \in
       {h \in [Procs -> BOOLEAN] : Cardinality({p \in Procs : ~h[p]}) <= 1}
  /\ \E T \in {S \in SUBSET Keys : Cardinality(S) <= MaxTuples} :
       \E holder \in [T -> Procs] :
         vc_ldata = [p \in Procs |-> LdataOf(T, holder, p)]
  /\ vc_pc = [p \in Procs |-> "start"]
  /\ vc_values = [p \in Procs |-> {<<0, 0, StaleValue>>}]
  /\ vc_off = [p \in Procs |-> <<>>]
  /\ vc_send0 = [p \in Procs |-> [d \in Procs |-> <<>>]]
  /\ vc_send1 = [p \in Procs |-> [d \in Procs |-> <<>>]]
  /\ vc_recv0 = [p \in Procs |-> [d \in Procs |-> <<>>]]
  /\ vc_recv1 = [p \in Procs |-> [d \in Procs |-> <<>>]]
  /\ vc_calls = [p \in Procs |-> <<>>]
  /\ EnforceIdle
  /\ TetIdle
  /\ RefineIdle
  /\ TwoPassIdle
  /\ LongEdgeIdle
  /\ EntryIdle
  /\ DivIdle

NextValues ==
  \E p \in Procs :
    \/ VcEnter(p)
    \/ VcError(p)
    \/ VcLocal(p)
    \/ VcPack(p)
    \/ VcExchange(p)
    \/ VcApply(p)

SpecValues == InitValues /\ [][NextValues]_vars

(* ---------------------------------------------------------------------- *)
(* The three overloads of refine, statement by statement                   *)
(* ---------------------------------------------------------------------- *)
MaxDim == 3        \* the topological dimensions are 0..MaxDim

Overloads == {"mark_all", "marker", "relation"}

\* mutant: only dimension 0 is refused
DimUnsupported_zero(tdim) == tdim = 0

\* the test at the head of each overload
DimUnsupported(tdim) == tdim # 2 /\ tdim # 3

\* the rest of the entry state, kept by a statement
EntryKept ==
  UNCHANGED <<en_tdim, en_overload, en_redistribute,
              en_calculate_parent_facets, en_args, en_new_mesh>>

OutsideEntry ==
  UNCHANGED <<enforce_vars, tet_vars, refine_vars, twopass_vars, longedge_vars,
              values_vars, div_vars>>

\* the test fails: dolfin_error ends the call
EntryError ==
  /\ en_pc = "call"
  /\ DimUnsupported(en_tdim)
  /\ en_pc' = "error"
  /\ UNCHANGED en_log
  /\ EntryKept
  /\ OutsideEntry

\* the test passes: face_long_edge(mesh)
EntryLongEdge ==
  /\ en_pc = "call"
  /\ ~DimUnsupported(en_tdim)
  /\ en_log' = Append(en_log, "face_long_edge")
  /\ en_pc' = "p_ref"
  /\ EntryKept
  /\ OutsideEntry

\* ParallelRefinement p_ref(mesh)
EntryPRef ==
  /\ en_pc = "p_ref"
  /\ en_log' = Append(en_log, "ParallelRefinement")
  /\ en_pc' = "mark"
  /\ EntryKept
  /\ OutsideEntry

\* p_ref.mark_all(), or p_ref.mark(refinement_marker)
EntryMark ==
  /\ en_pc = "mark"
  /\ en_log' = Append(en_log, IF en_overload = "mark_all" THEN "mark_all" ELSE "mark")
  /\ en_pc' = IF en_overload = "mark_all" THEN "do_refine" ELSE "enforce"
  /\ EntryKept
  /\ OutsideEntry

\* enforce_rules(p_ref, mesh, long_edge): synchronization and MPI::sum
EntryEnforce ==
  /\ en_pc = "enforce"
  /\ en_log' = Append(en_log, "enforce_rules")
  /\ en_pc' = "do_refine"
  /\ EntryKept
  /\ OutsideEntry

\* do_refine(new_mesh, mesh, p_ref, long_edge, redistribute, ...); the
\* overload with a mesh_relation passes redistribute = false
EntryDoRefine ==
  /\ en_pc = "do_refine"
  /\ en_log' = Append(en_log, "do_refine")
  /\ en_args' = <<en_overload # "relation" /\ en_redistribute,
                  en_calculate_parent_facets>>
  /\ en_new_mesh' = "refined"
  /\ en_pc' = "done"
  /\ UNCHANGED <<en_tdim, en_overload, en_redistribute,
                 en_calculate_parent_facets>>
  /\ OutsideEntry

InitEntry ==
  /\ en_tdim \in 0..MaxDim
  /\ en_overload \in Overloads
  /\ en_redistribute \in (IF en_overload = "relation" THEN {FALSE} ELSE BOOLEAN)
  /\ en_calculate_parent_facets \in BOOLEAN
  /\ en_args = <<>>
  /\ en_pc = "call"
  /\ en_log = <<>>
  /\ en_new_mesh = "unmodified"
  /\ EnforceIdle
  /\ TetIdle
  /\ RefineIdle
  /\ TwoPassIdle
  /\ LongEdgeIdle
  /\ ValuesIdle
  /\ DivIdle

NextEntry ==
  \/ EntryError
  \/ EntryLongEdge
  \/ EntryPRef
  \/ EntryMark
  \/ EntryEnforce
  \/ EntryDoRefine

SpecEntry == InitEntry /\ [][NextEntry]_vars

(* ---------------------------------------------------------------------- *)
(* Properties of enforce_rules                                             *)
(* ---------------------------------------------------------------------- *)
AllDone == \A p \in Procs : pc[p] = "done"

GlobalMarked == UNION {marked[q] : q \in Procs}

InitiallyUnmarked == Edges \ UNION {initial[q] : q \in Procs}

\* C1: when enforce_rules has returned, every face with a marked edge (on
\* any process) has its longest edge marked on every process that holds
\* that edge.
C1_LongestEdgeMarked ==
  (\E p \in Procs : pc[p] = "done") =>
    \A f \in Faces :
      (FaceEdges(f) \cap GlobalMarked # {}) =>
        \A q \in Procs :
          long_edge[f] \in LocalEdges(q) => long_edge[f] \in marked[q]

\* a mark made on one process has reached, through the longest edge of a
\* face on another process, an edge that was unmarked everywhere
C1_Witness ==
  /\ AllDone
  /\ \E f \in Faces, g \in Faces :
       /\ owner[f] # owner[g]
       /\ FaceEdges(f) \cap initial[owner[f]] = {}
       /\ long_edge[f] \in InitiallyUnmarked
       /\ long_edge[f] \in marked[owner[f]]
       /\ long_edge[g] \in FaceEdges(f)
       /\ long_edge[g] \in InitiallyUnmarked

\* C2: on every process enforce_rules returns, having seen a global
\* update count of zero, and no process runs more rounds than the number
\* of initially unmarked edges of the mesh plus one.
C2_Terminates ==
  /\ [](\A p \in Procs : round[p] <= Cardinality(InitiallyUnmarked) + 1)
  /\ <>(\A p \in Procs : pc[p] = "done" /\ update_count[p] = 0)

C2_Witness ==
  /\ AllDone
  /\ \A p \in Procs : run[p] = 1 /\ round[p] >= 3

\* q is in an earlier round than p
Behind(q, p) ==
  \/ run[q] < run[p]
  \/ run[q] = run[p] /\ round[q] < round[p]

\* C3: a process that has started a round after the first (its
\* synchronisation or face scan) finds every other process at least inside
\* the global sum of the round before.
C3_RoundBarrier ==
  \A p \in Procs, q \in Procs :
    (Behind(q, p) /\ (round[p] >= 2 \/ run[p] > run[q])) =>
      /\ pc[q] \in {"sum", "done"}
      /\ run[q] = run[p] => round[q] = round[p] - 1

\* one process is already in round 2 while its peer still waits in the
\* sum of round 1
C3_Witness ==
  \E p \in Procs, q \in Procs :
    /\ run[p] = 1 /\ run[q] = 1
    /\ round[p] = 2 /\ pc[p] = "sync"
    /\ round[q] = 1 /\ pc[q] = "sum"
    /\ marked[q] # initial[q]

\* C4: a second call on the markers the first call left performs one
\* round, marks nothing, counts zero and leaves the markers unchanged.
C4_Idempotent ==
  \A p \in Procs :
    run[p] >= 2 =>
      /\ marked[p] = marked0[p]
      /\ round[p] <= 1
      /\ pc[p] = "sum" => update_count[p] = 0
      /\ pc[p] = "done" => round[p] = 1 /\ update_count[p] = 0

C4_Witness ==
  /\ AllDone
  /\ \A p \in Procs : run[p] = 2 /\ marked[p] # initial[p]

\* C5: a marked edge stays marked: no step of any process removes a mark.
C5_MarksMonotone ==
  [][\A p \in Procs : marked[p] \subseteq marked'[p]]_vars

C5_Witness ==
  \E p \in Procs :
    /\ round[p] >= 2
    /\ pc[p] = "sum"
    /\ Cardinality(marked[p] \ initial[p]) >= 2

(* ---------------------------------------------------------------------- *)
(* Properties of get_tetrahedra                                            *)
(* ---------------------------------------------------------------------- *)
SlotSet(t) == {t[1], t[2], t[3], t[4]}

EmittedSets == {SlotSet(tet_set[n]) : n \in 1..Len(tet_set)}

\* C6: every emitted tuple has strictly increasing slots, and no two
\* emitted tuples are equal or name the same four slots.
C6_NoDuplicateTet ==
  tpc = "done" =>
    /\ \A n \in 1..Len(tet_set) :
         LET t == tet_set[n] IN t[1] < t[2] /\ t[2] < t[3] /\ t[3] < t[4]
    /\ \A n \in 1..Len(tet_set), k \in 1..Len(tet_set) :
         n # k => /\ tet_set[n] # tet_set[k]
                  /\ SlotSet(tet_set[n]) # SlotSet(tet_set[k])

\* all six edges marked: the cell is cut into eight tetrahedra
C6_Witness ==
  /\ tpc = "done"
  /\ \A e \in 0..(NumCellEdges3 - 1) : marked_edges[e]
  /\ Len(tet_set) = 8

\* the adjacency graph of the first phase: a pair is adjacent when either
\* of its two matrix entries was set
Adjacent(a, b) == <<a, b>> \in conn \/ <<b, a>> \in conn

Cliques4 ==
  {S \in SUBSET (0..(NumSlots - 1)) :
     /\ Cardinality(S) = 4
     /\ \A a \in S, b \in S : a # b => Adjacent(a, b)}

\* C7: the emitted slot sets are exactly the 4-cliques of the adjacency
\* graph, and every connection is present in the upper triangle.
C7_ExactlyCliques ==
  tpc = "done" =>
    /\ EmittedSets = Cliques4
    /\ \A a \in 0..(NumSlots - 1), b \in 0..(NumSlots - 1) :
         (a < b /\ Adjacent(a, b)) => <<a, b>> \in conn

\* a connection back to a longest edge with a smaller index was made, so
\* the rule wrote its entry below the diagonal as well
C7_Witness ==
  /\ tpc = "done"
  /\ Len(tet_set) >= 3
  /\ \E ei \in 0..(NumCellEdges3 - 1), f \in 0..(NumFacets3 - 1) :
       /\ marked_edges[ei]
       /\ ei \in FacetEdges3(f)
       /\ longest_edge[f] < ei
       /\ <<ei + 4, longest_edge[f] + 4>> \in conn

\* the slots lying on facet f: its 3 vertices and its 3 edge midpoints
FacetSlots(f) ==
  ((0..(NumFacets3 - 1)) \ {f}) \cup {e + 4 : e \in FacetEdges3(f)}

MarkedFacets == {f \in 0..(NumFacets3 - 1) : \E e \in FacetEdges3(f) : marked_edges[e]}

\* the markers satisfy the rule on each facet
RuleHolds == \A f \in MarkedFacets : marked_edges[longest_edge[f]]

\* the triangular faces of the emitted tetrahedra
ChildFaces ==
  UNION {{SlotSet(tet_set[n]) \ {v} : v \in SlotSet(tet_set[n])} :
           n \in 1..Len(tet_set)}

TetsWithFace(F) == {n \in 1..Len(tet_set) : F \subseteq SlotSet(tet_set[n])}

FacetsHolding(F) == {f \in 0..(NumFacets3 - 1) : F \subseteq FacetSlots(f)}

\* a face on a parent facet is on one facet and in one tetrahedron, an
\* interior face is shared by two tetrahedra
ClosedSubdivision ==
  \A F \in ChildFaces :
    IF FacetsHolding(F) # {}
    THEN Cardinality(FacetsHolding(F)) = 1 /\ Cardinality(TetsWithFace(F)) = 1
    ELSE Cardinality(TetsWithFace(F)) = 2

\* the longest edges of the facets with a marked edge are those of one
\* strict ranking of the six edges
RankingInduced ==
  \E rank \in Permutations(0..(NumCellEdges3 - 1)) :
    \A f \in MarkedFacets :
      \A e \in FacetEdges3(f) : rank[longest_edge[f]] >= rank[e]

\* C8 as stated: for every marking that satisfies the rule on each facet
\* and every choice of a longest edge among each facet's own edges the
\* emitted tetrahedra form a closed subdivision.
C8_ClosedForAnyAssignment ==
  (tpc = "done" /\ RuleHolds) => ClosedSubdivision

\* C8 amended: the same, for the choices of longest edges that one strict
\* ranking of the six edges induces on the facets with a marked edge.
C8_ClosedForRankedAssignment ==
  (tpc = "done" /\ RuleHolds /\ RankingInduced) => ClosedSubdivision

\* all edges marked under a ranking: faces inside the cell are shared
C8_Witness ==
  /\ tpc = "done"
  /\ RuleHolds
  /\ RankingInduced
  /\ \A e \in 0..(NumCellEdges3 - 1) : marked_edges[e]
  /\ \E F \in ChildFaces :
       FacetsHolding(F) = {} /\ Cardinality(TetsWithFace(F)) = 2
  /\ \E F \in ChildFaces :
       FacetsHolding(F) # {} /\ Cardinality(TetsWithFace(F)) = 1

(* ---------------------------------------------------------------------- *)
(* Properties of get_triangles and do_refine                               *)
(* ---------------------------------------------------------------------- *)
\* simplex_set holds the triangles of a refined cell
CellRefined == simplex_set # <<>>

Triangles == {simplex_set[n] : n \in 1..Len(simplex_set)}

\* number of marked edges other than the longest one
OthersMarked ==
  Cardinality({p \in 0..(NumCellEdges2 - 1) : markers[p] /\ p # local_longest})

\* C9: with the longest edge marked, get_triangles returns 2 triangles plus
\* one per marked non-longest edge; the half at a marked edge v0 is
\* {e2,v2,e0},{e2,e0,v1} and otherwise {e2,v2,v1}, likewise for v1.
C9_TriangleCount ==
  (CellRefined /\ markers[local_longest]) =>
    LET v2 == local_longest
        v0 == (local_longest + 1) % 3
        v1 == (local_longest + 2) % 3
    IN /\ Len(simplex_set) = 2 + OthersMarked
       /\ Cardinality(Triangles) = Len(simplex_set)
       /\ IF markers[v0]
          THEN /\ <<v2 + 3, v2, v0 + 3>> \in Triangles
               /\ <<v2 + 3, v0 + 3, v1>> \in Triangles
               /\ <<v2 + 3, v2, v1>> \notin Triangles
          ELSE /\ <<v2 + 3, v2, v1>> \in Triangles
               /\ <<v2 + 3, v2, v0 + 3>> \notin Triangles
       /\ IF markers[v1]
          THEN /\ <<v2 + 3, v2, v1 + 3>> \in Triangles
               /\ <<v2 + 3, v1 + 3, v0>> \in Triangles
               /\ <<v2 + 3, v2, v0>> \notin Triangles
          ELSE /\ <<v2 + 3, v2, v0>> \in Triangles
               /\ <<v2 + 3, v2, v1 + 3>> \notin Triangles

\* the longest edge and exactly one other edge are marked: 3 triangles
C9_Witness ==
  /\ CellRefined
  /\ markers[local_longest]
  /\ OthersMarked = 1
  /\ Len(simplex_set) = 3

Range(t) == {t[k] : k \in 1..Len(t)}

\* the input is one triangle with only its longest edge marked
OneTriangleLongestMarked ==
  /\ ncells = 1
  /\ p_ref_marked = {At(cell_long_edge, 0)}

\* C10: one triangle (vertices 0,1,2) with only the longest edge marked is
\* refined into 2 cells of 3 distinct vertices; both hold the new vertex
\* of the longest edge and the vertex opposite it, and each end vertex of
\* the longest edge is in exactly one of them.
C10_SingleTriangle ==
  (rpc = "done" /\ OneTriangleLongestMarked) =>
    LET le == At(cell_long_edge, 0)
        nv == new_vertex_map[le]
        lp == CHOOSE p \in 0..2 : CellEdge(0, p) = le
        opp == CellVertex(0, lp)
        ends == {CellVertex(0, i) : i \in 0..2} \ {opp}
    IN /\ Len(new_cells) = 2
       /\ nv \notin {CellVertex(0, i) : i \in 0..2}
       /\ \A n \in 1..2 :
            /\ Len(new_cells[n]) = 3
            /\ Cardinality(Range(new_cells[n])) = 3
            /\ nv \in Range(new_cells[n])
            /\ opp \in Range(new_cells[n])
       /\ \A x \in ends :
            Cardinality({n \in 1..2 : x \in Range(new_cells[n])}) = 1

\* the longest edge is not the edge with local index equal to its mesh
\* index, so the conversion to the local numbering has done something
C10_Witness ==
  /\ rpc = "done"
  /\ OneTriangleLongestMarked
  /\ Len(new_cells) = 2
  /\ CellEdge(0, At(cell_long_edge, 0) % 3) # At(cell_long_edge, 0)

(* ---------------------------------------------------------------------- *)
(* Properties of refine with mark_all                                     *)
(* ---------------------------------------------------------------------- *)
\* C11: from one triangle, the first pass of refine with every edge marked
\* builds a mesh of 4 cells and the second a mesh of 16 cells, and after
\* each pass the areas of the cells add up to the area of the triangle.
C11_TwoPasses ==
  /\ tp_pass = 1 => Len(tp_cells) = 4
  /\ tp_pass = 2 => Len(tp_cells) = 16
  /\ tp_pass \in 1..2 =>
       /\ MeshArea2(tp_cells, tp_coords) = tp_area
       /\ \A c \in 1..Len(tp_cells) : CellArea2(tp_coords, tp_cells[c]) > 0

\* two passes done on a triangle with three edges of different length
C11_Witness ==
  /\ tp_pass = 2
  /\ Len(tp_cells) = 16
  /\ Len(tp_coords) = 15
  /\ MeshArea2(tp_cells, tp_coords) = tp_area
  /\ Cardinality({SqLength(tp_coords, e) : e \in {{0, 1}, {0, 2}, {1, 2}}}) = 3

(* ---------------------------------------------------------------------- *)
(* Properties of face_long_edge                                            *)
(* ---------------------------------------------------------------------- *)
Evaluated(ev) == le_result[ev] # -1

\* local position of the edge the evaluation returned, 0 if it is no edge
ResultPos(ev) ==
  IF \E k \in 1..3 : LocalEdgeIndex(ev, k) = le_result[ev]
  THEN CHOOSE k \in 1..3 : LocalEdgeIndex(ev, k) = le_result[ev]
  ELSE 0

LenAt(ev, k) == le_len[le_order[ev][k]]

GlobalAt(ev, k) == le_gi[le_order[ev][k]]

SomePositiveLength == \E v \in FaceVertices : le_len[v] > 0

\* C12: on a face with an edge of positive length the result is the mesh
\* index of an edge of the face, no edge of the face is longer than it, and
\* of the edges as long as it none has an associated vertex (the vertex at
\* the edge's local position) of larger global index.
C12_LongestWithLargestVertex ==
  \A ev \in Evaluations :
    (Evaluated(ev) /\ SomePositiveLength) =>
      /\ ResultPos(ev) \in 1..3
      /\ \A k \in 1..3 : LenAt(ev, k) <= LenAt(ev, ResultPos(ev))
      /\ \A k \in 1..3 :
           LenAt(ev, k) = LenAt(ev, ResultPos(ev)) =>
             GlobalAt(ev, k) <= GlobalAt(ev, ResultPos(ev))

\* two edges of maximal length, the one scanned first having the associated
\* vertex of smaller global index
C12_Witness ==
  \E ev \in Evaluations :
    /\ Evaluated(ev)
    /\ SomePositiveLength
    /\ \E j, k \in 1..3 :
         /\ j < k
         /\ LenAt(ev, j) = LenAt(ev, k)
         /\ \A i \in 1..3 : LenAt(ev, i) <= LenAt(ev, k)
         /\ GlobalAt(ev, j) < GlobalAt(ev, k)
         /\ ResultPos(ev) = k

\* the edge an evaluation returned, as the global indices of its ends
ChosenEdge(ev) ==
  IF ResultPos(ev) = 0 THEN {}
  ELSE {le_gi[v] : v \in FaceVertices \ {le_order[ev][ResultPos(ev)]}}

\* C13: two evaluations of a face that agree on the edge lengths and the
\* global vertex indices return the same edge (the same pair of global end
\* vertex indices), whatever local numbering each of them scans the face in.
C13_SameEdgeEverywhere ==
  \A a, b \in Evaluations :
    (Evaluated(a) /\ Evaluated(b)) =>
      /\ ChosenEdge(a) = ChosenEdge(b)
      /\ ChosenEdge(a) # {}

\* both evaluations done, in different numberings and with different edge
\* indices, on a face with two longest edges
C13_Witness ==
  /\ Evaluated(1)
  /\ Evaluated(2)
  /\ le_order[1] # le_order[2]
  /\ le_result[1] # le_result[2]
  /\ \E v, w \in FaceVertices :
       /\ v # w
       /\ le_len[v] = le_len[w]
       /\ le_len[v] > 0
       /\ \A u \in FaceVertices : le_len[u] <= le_len[v]
  /\ ChosenEdge(1) = ChosenEdge(2)

(* ---------------------------------------------------------------------- *)
(* Properties of set_parent_facet_markers                                  *)
(* ---------------------------------------------------------------------- *)
\* do_refine has run set_parent_facet_markers
FacetsMapped == rpc = "end" /\ new_parent_facet # <<>>

\* the facets of the new mesh, as sets of global vertex indices
NewFacets == MeshEdgeSet(new_cells)

\* the entry of the array "parent_facet" for the facet F of the new mesh
FacetTag(F) == new_parent_facet[MeshEdgeIndex(NewFacets, F) + 1]

\* the cells of the new mesh the facet F belongs to
IncidentChildren(F) ==
  {n \in 1..Len(new_cells) : F \subseteq Range(new_cells[n])}

\* every vertex of F is an end of facet i of parent cell c or the new
\* vertex on it
LiesOn(F, c, i) ==
  \A v \in F :
    \/ v \in ParentFacetVertices(c, i)
    \/ /\ CellEdge(c, i) \in p_ref_marked
       /\ v = new_vertex_map[CellEdge(c, i)]

ParentCells == 0..(ncells - 1)

LocalFacets2 == 0..(NumCellEdges2 - 1)

OnSomeParentFacet(F) ==
  \E c \in ParentCells : \E i \in LocalFacets2 : LiesOn(F, c, i)

\* triangles: a facet carries "no parent" or the index of a facet of the
\* parent cell of one of its cells, the latter exactly if a parent facet
\* holds it
ParentFacetOrNone2 ==
  FacetsMapped =>
    /\ Len(new_parent_facet) = Cardinality(NewFacets)
    /\ \A F \in NewFacets :
         LET tag == FacetTag(F)
         IN /\ \/ tag = NoParent
               \/ \E n \in IncidentChildren(F) : \E i \in LocalFacets2 :
                    tag = CellEdge(new_parent_cell[n], i)
            /\ OnSomeParentFacet(F) <=> tag # NoParent

\* a refined cell next to a copied one: facets cut through the interior,
\* facets on divided parent facets and a facet on an undivided one
C14_Witness ==
  /\ FacetsMapped
  /\ \E F \in NewFacets : ~OnSomeParentFacet(F) /\ FacetTag(F) = NoParent
  /\ \E F \in NewFacets :
       /\ FacetTag(F) # NoParent
       /\ \E e \in p_ref_marked : new_vertex_map[e] \in F
  /\ \E F \in NewFacets :
       /\ FacetTag(F) # NoParent
       /\ Cardinality(IncidentChildren(F)) = 2
       /\ \A e \in p_ref_marked : new_vertex_map[e] \notin F

\* the local facets of the parent cell c that hold the facet F
Holding(F, c) == {i \in LocalFacets2 : LiesOn(F, c, i)}

\* triangles: a held facet carries the index of the first facet holding
\* it, and no facet is held by two facets of one parent cell
FirstAndOnlyMatch2 ==
  FacetsMapped =>
    \A F \in NewFacets : \A n \in IncidentChildren(F) :
      LET c == new_parent_cell[n]
          held == Holding(F, c)
      IN /\ Cardinality(held) <= 1
         /\ held # {} =>
              FacetTag(F) =
                CellEdge(c, CHOOSE i \in held : \A j \in held : i <= j)

\* do_refine has run set_parent_facet_markers on the tetrahedron
TetMapped == tpc = "mapped"

TetNewFacets == TetMeshFacets(tet_new_cells)

TetFacetTag(F) == tet_parent_facet[EntityIndex(TetNewFacets, F) + 1]

\* every vertex of F is a vertex of facet i of the tetrahedron or the new
\* vertex of one of its edges
TetLiesOn(F, i) ==
  \A v \in F :
    \/ v \in TetFacetVertices(i)
    \/ \E e \in FacetEdges3(i) : marked_edges[e] /\ v = TetNewVertex(e)

TetHolding(F) == {i \in 0..(NumFacets3 - 1) : TetLiesOn(F, i)}

\* tetrahedron: as ParentFacetOrNone2
ParentFacetOrNone3 ==
  TetMapped =>
    /\ Len(tet_parent_facet) = Cardinality(TetNewFacets)
    /\ \A F \in TetNewFacets :
         /\ \/ TetFacetTag(F) = NoParent
            \/ \E i \in 0..(NumFacets3 - 1) : TetFacetTag(F) = TetFacetIndex(i)
         /\ TetHolding(F) # {} <=> TetFacetTag(F) # NoParent

\* tetrahedron: as FirstAndOnlyMatch2
FirstAndOnlyMatch3 ==
  TetMapped =>
    \A F \in TetNewFacets :
      /\ Cardinality(TetHolding(F)) <= 1
      /\ TetHolding(F) # {} =>
           TetFacetTag(F) =
             TetFacetIndex(CHOOSE i \in TetHolding(F) :
                             \A j \in TetHolding(F) : i <= j)

\* C14: every facet of the new mesh carries the "no parent" value or the
\* index of a facet of the parent cell of one of its cells; it carries "no
\* parent" if its vertices are not all on one parent facet, and a facet
\* index if they are.
C14_ParentFacetOrNone == ParentFacetOrNone2 /\ ParentFacetOrNone3

\* C15: a child facet held by a facet of the parent cell of one of its
\* cells carries the index of the first such facet in the parent's local
\* order, and no child facet of the cells get_triangles or get_tetrahedra
\* return is held by two facets of one parent cell.
C15_FirstAndOnlyMatch == FirstAndOnlyMatch2 /\ FirstAndOnlyMatch3

\* a tetrahedron with all edges marked: child facets on the last facet of
\* the cell carry its index, and facets inside the cell carry none
C15_Witness ==
  /\ TetMapped
  /\ \A e \in 0..(NumCellEdges3 - 1) : marked_edges[e]
  /\ Len(tet_new_cells) = 8
  /\ Cardinality({F \in TetNewFacets :
                    /\ TetHolding(F) = {NumFacets3 - 1}
                    /\ TetFacetTag(F) = TetFacetIndex(NumFacets3 - 1)}) = 4
  /\ \E F \in TetNewFacets : TetFacetTag(F) = NoParent

\* global entity index of the facet of the parent mesh with local index e
\* The global index of a facet minus its local index, on the process: 0
\* on a single process, 0 or the number of facets numbered by the
\* processes before it otherwise.
FacetOffsets == IF serial THEN {0} ELSE {0, NumMeshEdges(ncells)}

GlobalFacetIndex(e, offset) == e + offset

VcAllDone == \A p \in Procs : vc_pc[p] = "done"

\* the tuples, each with the process holding it
HeldTuples ==
  {ht \in Procs \X (GCells \X (0..(NumLocalEntities - 1)) \X (1..(NumGCells * NumLocalEntities))) :
     \E i \in 1..Len(vc_ldata[ht[1]]) : vc_ldata[ht[1]][i] = ht[2]}

\* local index of the global cell c on process q, which holds it
LocalCellIndex(q, c) == Cardinality({d \in HostedCells(q) : d > c})

\* where a tuple for cell c held by h belongs: on h if h holds the cell,
\* else on the processes the query names
Destinations(h, c) == IF h \in vc_hosts[c] THEN {h} ELSE vc_hosts[c]

ExpectedValues(q) ==
  {<<LocalCellIndex(q, ht[2][1]), ht[2][2], ht[2][3]>> :
     ht \in {x \in HeldTuples : q \in Destinations(x[1], x[2][1])}}

\* C17: when build_mesh_value_collection has completed on all processes,
\* the collection of each process holds exactly the values of the tuples
\* that belong on it, each at (local index of its cell, local entity
\* index): none is lost, none is set anywhere else.
C17_RoundTrip ==
  VcAllDone => \A q \in Procs : vc_values[q] = ExpectedValues(q)

\* a tuple applied by its holder, and a tuple sent to a process on which
\* the local index of the cell is not its global index
C17_Witness ==
  /\ VcAllDone
  /\ \E ht \in HeldTuples : ht[1] \in vc_hosts[ht[2][1]]
  /\ \E ht \in HeldTuples : \E q \in Procs :
       /\ ht[1] \notin vc_hosts[ht[2][1]]
       /\ q \in vc_hosts[ht[2][1]]
       /\ LocalCellIndex(q, ht[2][1]) # ht[2][1]
       /\ <<LocalCellIndex(q, ht[2][1]), ht[2][2], ht[2][3]>> \in vc_values[q]

\* the buffers b for destination d are paired, and each pair and its
\* value come from one tuple of p
Paired(p, b, d) ==
  /\ Len(b.data0[d]) = 2 * Len(b.data1[d])
  /\ \A k \in 1..Len(b.data1[d]) :
       \E i \in 1..Len(vc_ldata[p]) :
         /\ vc_ldata[p][i][3] = b.data1[d][k]
         /\ vc_ldata[p][i][2] = b.data0[d][2 * k]
         /\ LocalCellIndex(d, vc_ldata[p][i][1]) = b.data0[d][2 * k - 1]

C20_ErrorBeforeValues ==
  \A p \in Procs :
    ~vc_have_global[p] =>
      /\ vc_pc[p] \in {"start", "number", "error"}
      /\ vc_pc[p] = "error" =>
           /\ vc_values[p] = {}
           /\ vc_calls[p] = <<"number_entities">>
           /\ \A d \in Procs : vc_send0[p][d] = <<>> /\ vc_send1[p][d] = <<>>
           /\ \A d \in Procs : vc_recv0[p][d] = <<>> /\ vc_recv1[p][d] = <<>>

\* a process has ended in the error while it holds tuples, and another
\* process has added its local data and waits in the locate query
C20_Witness ==
  \E p, q \in Procs :
    /\ vc_pc[p] = "error"
    /\ vc_ldata[p] # <<>>
    /\ vc_values[p] = {}
    /\ vc_pc[q] = "locate"
    /\ vc_values[q] # {}

(* ---------------------------------------------------------------------- *)
(* Properties of the overloads of refine                                   *)
(* ---------------------------------------------------------------------- *)
\* C19: a call of any overload on a mesh of a dimension other than 2 and 3
\* gets no further than the fatal error: it has not computed the longest
\* edges, created the ParallelRefinement object, marked, enforced the
\* rules or called do_refine, and new_mesh is unmodified.
C19_ErrorBeforeAnything ==
  (en_pc # "idle" /\ en_tdim # 2 /\ en_tdim # 3) =>
    /\ en_pc \in {"call", "error"}
    /\ en_log = <<>>
    /\ en_args = <<>>
    /\ en_new_mesh = "unmodified"

\* the overload with enforce_rules has ended in the error on an interval
\* mesh
C19_Witness ==
  /\ en_pc = "error"
  /\ en_tdim = 1
  /\ en_overload = "marker"
  /\ en_log = <<>>

(* ---------------------------------------------------------------------- *)
(* Properties of the end of do_refine                                      *)
(* ---------------------------------------------------------------------- *)
\* C21: after do_refine the new mesh has the array "parent_cell" exactly
\* if the run has one process or redistribute is false, and the array then
\* holds parent_cell; in a run of several processes with redistribute true
\* neither "parent_cell" nor "parent_facet" is created and
\* edge_to_global_vertex of mesh_relation is not assigned, whatever
\* calculate_parent_facets is.
C21_ParentDataKept ==
  rpc = "end" =>
    /\ "parent_cell" \in new_mesh_arrays <=> (serial \/ ~redistribute)
    /\ "parent_cell" \in new_mesh_arrays => new_parent_cell = parent_cell
    /\ (~serial /\ redistribute) =>
         /\ new_mesh_arrays = {}
         /\ new_parent_cell = <<>>
         /\ new_parent_facet = <<>>
         /\ edge_to_global_vertex = <<>>

\* a run of several processes with redistribute and calculate_parent_facets
\* true has ended after refining a cell, without parent data
C21_Witness ==
  /\ rpc = "end"
  /\ ~serial
  /\ redistribute
  /\ calculate_parent_facets
  /\ Len(parent_cell) > ncells
  /\ new_mesh_arrays = {}

(* ---------------------------------------------------------------------- *)
(* Properties of the cell loop of do_refine                                *)
(* ---------------------------------------------------------------------- *)
\* C22: parent_cell has one entry for each cell given to new_cell so far,
\* and every step of do_refine that gives cells to new_cell appends to
\* parent_cell that many entries, each the index of the cell the step
\* works on (a cell without marked edge is given to new_cell itself).
C22_OneParentPerNewCell ==
  /\ [](Len(parent_cell) = Len(new_cells))
  /\ [][LET added == Len(new_cells') - Len(new_cells)
        IN /\ added >= 0
           /\ SubSeq(new_cells', 1, Len(new_cells)) = new_cells
           /\ parent_cell' = parent_cell \o [k \in 1..added |-> cell]
           /\ added > 0 => cell' = cell + 1]_vars

\* the first cell was copied and the second refined
C22_Witness ==
  /\ rpc = "cells"
  /\ cell = 2
  /\ Len(new_cells) > 2
  /\ parent_cell[1] = 0
  /\ \A k \in 2..Len(parent_cell) : parent_cell[k] = 1

(* ---------------------------------------------------------------------- *)
(* Properties of the connectivity built by get_tetrahedra                  *)
(* ---------------------------------------------------------------------- *)
CellEdges3 == 0..(NumCellEdges3 - 1)

\* the edge ei is the longest edge of both facets attached to it
LongestOfBoth(ei) ==
  /\ longest_edge[edges(5 - ei, 0)] = ei
  /\ longest_edge[edges(5 - ei, 1)] = ei

ParentVertexSet(c) ==
  {CellVertex(c, i) : i \in 0..(NumCellVertices2 - 1)}
    \cup {new_vertex_map[CellEdge(c, p)] :
            p \in {q \in LocalFacets2 : CellEdge(c, q) \in p_ref_marked}}

\* triangles: the slots of the last refined cell are vertex slots or slots
\* of marked edges, and every emitted cell holds only vertices of its
\* parent and new vertices of the parent's marked edges
SlotsInRange2 ==
  rpc \in {"cells", "done", "end"} =>
    /\ \A n \in 1..Len(simplex_set) : \A s \in Range(simplex_set[n]) :
         \/ s \in 0..(NumCellVertices2 - 1)
         \/ /\ s - NumCellVertices2 \in LocalFacets2
            /\ markers[s - NumCellVertices2]
    /\ \A k \in 1..Len(new_cells) :
         Range(new_cells[k]) \subseteq ParentVertexSet(parent_cell[k])

\* tetrahedra: on markers that satisfy the rule the slots are vertex slots
\* or slots of marked edges
SlotsInRange3 ==
  (tpc \in {"done", "mapped"} /\ RuleHolds
     /\ \E e \in CellEdges3 : marked_edges[e]) =>
    \A n \in 1..Len(tet_set) : \A s \in SlotSet(tet_set[n]) :
      \/ s \in 0..(NumCellVertices3 - 1)
      \/ /\ s - NumCellVertices3 \in CellEdges3
         /\ marked_edges[s - NumCellVertices3]

\* C24: for a cell with a marked edge whose markers satisfy the rule every
\* slot of every simplex of get_simplices is a vertex slot or the slot of
\* a marked edge of the cell, so that every emitted cell holds vertices of
\* its parent and new vertices of the parent's marked edges only, and no
\* value left in indices by an earlier cell.
C24_SlotsInRange == SlotsInRange2 /\ SlotsInRange3

\* the second cell was refined while indices held, at the slot of one of
\* its unmarked edges, a new vertex left by the first cell
C24_Witness ==
  /\ rpc = "cells"
  /\ cell = 2
  /\ Len(MarkedEdgeList(1)) > 0
  /\ \E p \in LocalFacets2 :
       /\ CellEdge(1, p) \notin p_ref_marked
       /\ At(indices, NumCellVertices2 + p) >= NumMeshVertices(ncells)
       /\ At(indices, NumCellVertices2 + p) \notin ParentVertexSet(1)

(* ---------------------------------------------------------------------- *)
(* Properties of the vertex slots in get_tetrahedra                        *)
(* ---------------------------------------------------------------------- *)
\* C25: the two end vertices of an edge are connected exactly if the edge
\* is unmarked, no emitted tetrahedron holds both ends of a marked edge,
\* and without a marked edge the one tetrahedron emitted is <<0, 1, 2, 3>>.
C25_EndsJoinedIffUnmarked ==
  tpc = "done" =>
    /\ \A ei \in CellEdges3 :
         /\ Adjacent(edges(ei, 0), edges(ei, 1)) <=> ~marked_edges[ei]
         /\ marked_edges[ei] =>
              \A n \in 1..Len(tet_set) :
                ~({edges(ei, 0), edges(ei, 1)} \subseteq SlotSet(tet_set[n]))
    /\ (\A ei \in CellEdges3 : ~marked_edges[ei]) =>
         tet_set = << <<0, 1, 2, 3>> >>

\* one edge is marked and the cell was cut in two across it
C25_Witness ==
  /\ tpc = "done"
  /\ Len(tet_set) = 2
  /\ \E ei \in CellEdges3 :
       /\ marked_edges[ei]
       /\ \A d \in CellEdges3 \ {ei} : ~marked_edges[d]
       /\ ~Adjacent(edges(ei, 0), edges(ei, 1))
       /\ \A n \in 1..2 : ei + 4 \in SlotSet(tet_set[n])

(* ---------------------------------------------------------------------- *)
(* Properties of the rounds of enforce_rules                               *)
(* ---------------------------------------------------------------------- *)
\* C26: a process that has left the loop has made at least one call of the
\* marker synchronisation and of the global sum, no process begins a
\* round after the one in which a process left, the processes that have
\* left made the same number of calls of each collective, and as long as a
\* process has not left some process can take a step.
C26_SameRounds ==
  /\ \A p \in Procs :
       pc[p] = "done" =>
         /\ round[p] >= 1
         /\ Len(sync_sent[p]) >= 1
         /\ Len(sum_sent[p]) >= 1
         /\ \A q \in Procs :
              /\ round[q] <= round[p]
              /\ Len(sync_sent[q]) <= Len(sync_sent[p])
              /\ Len(sum_sent[q]) <= Len(sum_sent[p])
              /\ pc[q] = "done" =>
                   /\ round[q] = round[p]
                   /\ Len(sync_sent[q]) = Len(sync_sent[p])
                   /\ Len(sum_sent[q]) = Len(sum_sent[p])
  /\ (\E p \in Procs : pc[p] \notin {"done", "idle"}) => ENABLED NextEnforce

\* all processes have left after three rounds, one of them without a face
C26_Witness ==
  /\ AllDone
  /\ \E p \in Procs :
       /\ LocalFaces(p) = {}
       /\ round[p] >= 3
       /\ Len(sum_sent[p]) = round[p]

(* ---------------------------------------------------------------------- *)
(* Conformity of get_tetrahedra across a facet                             *)
(* ---------------------------------------------------------------------- *)
\* the triangular faces of the tetrahedra ts that lie on facet f
FacetTriangles(f, ts) ==
  {F \in UNION {{SlotSet(ts[n]) \ {v} : v \in SlotSet(ts[n])} : n \in 1..Len(ts)} :
     F \subseteq FacetSlots(f)}

\* The input that agrees with the current one on the marks of the edges of
\* f and on the longest edge of f, with no other edge marked and with the
\* edge shared with f as the longest edge of every other facet: it
\* satisfies the rule whenever the current input does on f, and its
\* longest edges are those of a ranking.
RefMarked(f) == [e \in CellEdges3 |-> e \in FacetEdges3(f) /\ marked_edges[e]]

RefLongest(f) ==
  [g \in 0..(NumFacets3 - 1) |->
     IF g = f THEN longest_edge[f]
     ELSE CHOOSE e \in FacetEdges3(f) \cap FacetEdges3(g) : TRUE]

RefTets(f) == EnumerateTets(BuildConn(RefMarked(f), RefLongest(f)))

\* the triangles on every facet are those of the input that agrees on the
\* facet and marks nothing else
SameAsAlone ==
  \A f \in 0..(NumFacets3 - 1) :
    FacetTriangles(f, tet_set) = FacetTriangles(f, RefTets(f))

\* C27 as stated: on markers that satisfy the rule the child triangles on
\* a facet f depend only on the marks of the edges of f and on the longest
\* edge of f, so they are those of every other such input that agrees on
\* f.
C27_ConformingForAnyAssignment ==
  (tpc = "done" /\ RuleHolds) => SameAsAlone

\* C27: the same, for longest edges that are those of one strict ranking
\* of the six edges.
C27_ConformingForRankedAssignment ==
  (tpc = "done" /\ RuleHolds /\ RankingInduced) => SameAsAlone

\* four edges marked around the cell, longest edges from a ranking; a
\* facet with two marked edges is cut in three triangles, as it is alone
C27_Witness ==
  /\ tpc = "done"
  /\ RuleHolds
  /\ RankingInduced
  /\ Cardinality({e \in CellEdges3 : marked_edges[e]}) >= 4
  /\ \E f \in 0..(NumFacets3 - 1) :
       /\ Cardinality({e \in FacetEdges3(f) : marked_edges[e]}) = 2
       /\ Cardinality(FacetTriangles(f, tet_set)) = 3
       /\ FacetTriangles(f, tet_set) = FacetTriangles(f, RefTets(f))
       /\ RefTets(f) # tet_set

(* ---------------------------------------------------------------------- *)
(* The marking enforce_rules ends with                                     *)
(* ---------------------------------------------------------------------- *)
\* the least set of edges that holds M and, for every face with an edge in
\* it, the longest edge of the face
RECURSIVE Closure(_)
Closure(M) ==
  LET add == {long_edge[f] : f \in {g \in Faces : FaceEdges(g) \cap M # {}}}
  IN IF add \subseteq M THEN M ELSE Closure(M \cup add)

GlobalInitial == UNION {initial[q] : q \in Procs}

\* C28: when all processes have left, the marked edges are the initial ones
\* and the longest edges reached from them through faces with a marked
\* edge, and no other; every process holds the part of this set on its own
\* edges, whatever the order of its face loop and the distribution of the
\* faces are.
C28_LeastMarking ==
  AllDone =>
    /\ GlobalMarked = Closure(GlobalInitial)
    /\ \A p \in Procs : marked[p] = LocalEdges(p) \cap Closure(GlobalInitial)

\* two processes; the marks spread over two faces from one initial mark,
\* and an edge stays unmarked
C28_Witness ==
  /\ AllDone
  /\ \E p, q \in Procs : p # q /\ LocalFaces(p) # {} /\ LocalFaces(q) # {}
  /\ Cardinality(GlobalInitial) = 1
  /\ Cardinality(GlobalMarked) >= 3
  /\ GlobalMarked # Edges

(* ---------------------------------------------------------------------- *)
(* Copies of a cell held by several processes                              *)
(* ---------------------------------------------------------------------- *)
\* the values process q holds for the entity e of the global cell c
ValueAt(q, c, e) ==
  {t[3] : t \in {x \in vc_values[q] : x[1] = LocalCellIndex(q, c) /\ x[2] = e}}

\* C29: when build_mesh_value_collection has completed on all processes,
\* two processes holding the same global cell hold the same value for each
\* entity of that cell, and a tuple whose cell is present on its holder has
\* also reached the other processes holding that cell.
C29_CopiesAgree ==
  VcAllDone =>
    /\ \A c \in GCells : \A p, q \in vc_hosts[c] :
         \A e \in 0..(NumLocalEntities - 1) : ValueAt(p, c, e) = ValueAt(q, c, e)
    /\ \A ht \in HeldTuples :
         ht[1] \in vc_hosts[ht[2][1]] =>
           \A q \in vc_hosts[ht[2][1]] : ht[2][3] \in ValueAt(q, ht[2][1], ht[2][2])

(* ---------------------------------------------------------------------- *)
(* Iteration::computeDivergence, both overloads                            *)
(* ---------------------------------------------------------------------- *)
MaxIter == 3       \* largest maxiter
MaxExp == 1        \* increments and tol are 2^k, k in -MaxExp..MaxExp
MaxElems == 2      \* values of the elements of a list or group
MaxAlphaDen == 2   \* alpha on entry is 1/k, k in 1..MaxAlphaDen

DivOverloads == {"list", "group"}

Exps == (-MaxExp)..MaxExp

\* values an element may hold
ElementValues == {0, 1}

Alphas == {<<1, k>> : k \in 1..MaxAlphaDen}

RECURSIVE Factorial(_)
Factorial(k) == IF k <= 1 THEN 1 ELSE k * Factorial(k - 1)

\* A convergence factor rho is kept as q, with rho = 2^(q / RhoDen); the
\* cumulative geometric mean of n ratios of powers of two has such a q for
\* every n up to MaxIter.
RhoDen == Factorial(MaxIter)

\* update(list, dd) and update(group, dd): the elements are iterated once
\* and dd holds the last two increments; els and inc are what it leaves
update(els, inc) ==
  /\ dv_elements' = els
  /\ dv_dd' = inc

\* "Check for convergence": dd.d2 < tol
BelowTol(inc) == inc[2] < dv_tol

\* rhonew = dd.d2 / (DOLFIN_EPS + dd.d1), DOLFIN_EPS being far below the
\* distance between two ratios
rhonew(inc) == (inc[2] - inc[1]) * RhoDen

\* nn = std::max(1.0, n)
nn(k) == IF k > 1 THEN k ELSE 1

\* rho2 = pow(rho2, (nn-1.0)/nn) * pow(rhonew, 1.0/nn)
NextRho2(rho2, k, inc) == (rho2 * (nn(k) - 1) + rhonew(inc)) \div nn(k)

\* abs(rho2-rho1) < 0.1 * rho1: rho2 / rho1 lies strictly between 0.9 and
\* 1.1, whose base-2 logarithms are -0.152 and 0.1375; the distance from
\* (rho2 - rho1) / RhoDen to either is above 0.01 for every n up to 6
FactorConverged(rho1, rho2) ==
  /\ -152 * RhoDen < 1000 * (rho2 - rho1)
  /\ 1000 * (rho2 - rho1) < 138 * RhoDen

\* "Restore alpha" and "Restore solution values", then return rho2
RestoreAndReturn(rho2) ==
  /\ dv_alpha' = dv_alpha0
  /\ dv_elements' = dv_x0
  /\ dv_result' = <<rho2>>
  /\ dv_pc' = "returned"

OutsideDiv ==
  UNCHANGED <<enforce_vars, tet_vars, refine_vars, twopass_vars, longedge_vars,
              values_vars, entry_vars>>

\* up to the loop: rho1 = rho2 = 1.0, alpha saved and set to 1, the values
\* of the elements copied to x0
DivEnter ==
  /\ dv_pc = "call"
  /\ dv_rho' = <<0, 0>>
  /\ dv_alpha0' = dv_alpha
  /\ dv_alpha' = <<1, 1>>
  /\ dv_x0' = dv_elements
  /\ dv_n' = 0
  /\ dv_pc' = "loop"
  /\ UNCHANGED <<dv_overload, dv_maxiter, dv_tol, dv_elements, dv_dd, dv_result,
                 dv_entry>>
  /\ OutsideDiv

\* an iteration that ends at "return 1.0"
DivReturnConverged ==
  /\ dv_pc = "loop"
  /\ dv_n < dv_maxiter
  /\ \E els \in [1..Len(dv_elements) -> ElementValues], inc \in Exps \X Exps :
       /\ update(els, inc)
       /\ BelowTol(inc)
  /\ dv_result' = <<0>>
  /\ dv_pc' = "returned"
  /\ UNCHANGED <<dv_overload, dv_maxiter, dv_tol, dv_alpha, dv_alpha0, dv_x0,
                 dv_n, dv_rho, dv_entry>>
  /\ OutsideDiv

\* the first iteration, when it ends at "continue"
DivContinue ==
  /\ dv_pc = "loop"
  /\ dv_n < dv_maxiter
  /\ \E els \in [1..Len(dv_elements) -> ElementValues], inc \in Exps \X Exps :
       /\ update(els, inc)
       /\ ~BelowTol(inc)
  /\ dv_n < 1
  /\ dv_n' = dv_n + 1
  /\ UNCHANGED <<dv_overload, dv_maxiter, dv_tol, dv_alpha, dv_alpha0, dv_x0,
                 dv_rho, dv_pc, dv_result, dv_entry>>
  /\ OutsideDiv

\* a later iteration after which the factor has not converged
DivNext ==
  /\ dv_pc = "loop"
  /\ dv_n < dv_maxiter
  /\ dv_n >= 1
  /\ \E els \in [1..Len(dv_elements) -> ElementValues], inc \in Exps \X Exps :
       /\ update(els, inc)
       /\ ~BelowTol(inc)
       /\ LET rho2 == NextRho2(dv_rho[2], dv_n, inc)
          IN /\ ~FactorConverged(dv_rho[2], rho2)
             /\ dv_rho' = <<dv_rho[2], rho2>>
  /\ dv_n' = dv_n + 1
  /\ UNCHANGED <<dv_overload, dv_maxiter, dv_tol, dv_alpha, dv_alpha0, dv_x0,
                 dv_pc, dv_result, dv_entry>>
  /\ OutsideDiv

\* a later iteration that ends at "break": an update, then the statements
\* after the loop, which undo it
DivBreak ==
  /\ dv_pc = "loop"
  /\ dv_n < dv_maxiter
  /\ dv_n >= 1
  /\ \E inc \in Exps \X Exps :
       /\ dv_dd' = inc
       /\ ~BelowTol(inc)
       /\ LET rho2 == NextRho2(dv_rho[2], dv_n, inc)
          IN /\ FactorConverged(dv_rho[2], rho2)
             /\ dv_rho' = <<dv_rho[2], rho2>>
             /\ RestoreAndReturn(rho2)
  /\ UNCHANGED <<dv_overload, dv_maxiter, dv_tol, dv_alpha0, dv_x0, dv_n,
                 dv_entry>>
  /\ OutsideDiv

\* n has reached maxiter: the statements after the loop
DivExhausted ==
  /\ dv_pc = "loop"
  /\ dv_n >= dv_maxiter
  /\ RestoreAndReturn(dv_rho[2])
  /\ UNCHANGED <<dv_overload, dv_maxiter, dv_tol, dv_alpha0, dv_x0, dv_n, dv_dd,
                 dv_rho, dv_entry>>
  /\ OutsideDiv

InitDivergence ==
  /\ dv_overload \in DivOverloads
  /\ dv_maxiter \in 0..MaxIter
  /\ dv_tol \in Exps
  /\ dv_alpha \in Alphas
  /\ dv_alpha0 = <<1, 1>>
  /\ \E k \in 1..MaxElems : dv_elements \in [1..k -> ElementValues]
  /\ dv_x0 = <<>>
  /\ dv_n = 0
  /\ dv_dd = <<>>
  /\ dv_rho = <<0, 0>>
  /\ dv_pc = "call"
  /\ dv_result = <<>>
  /\ dv_entry = <<dv_alpha, dv_elements>>
  /\ EnforceIdle
  /\ TetIdle
  /\ RefineIdle
  /\ TwoPassIdle
  /\ LongEdgeIdle
  /\ ValuesIdle
  /\ EntryIdle

NextDivergence ==
  \/ DivEnter
  \/ DivReturnConverged
  \/ DivContinue
  \/ DivNext
  \/ DivBreak
  \/ DivExhausted

SpecDivergence == InitDivergence /\ [][NextDivergence]_vars

\* C30: when computeDivergence has returned, by whichever return statement,
\* alpha has the value it had on entry and the elements hold the values
\* they held on entry.
C30_StateRestored ==
  dv_pc = "returned" =>
    /\ dv_alpha = dv_entry[1]
    /\ dv_elements = dv_entry[2]

====
